---- MODULE Spec2Model ----
(***************************************************************************)
(* Session-Rec-Engine: the Thompson-sampling bandit and its cold-start     *)
(* handler (src/coldstart/bandit.py), the metrics tracker                  *)
(* (src/monitoring/metrics.py), the item catalog (src/utils/catalog.py),   *)
(* the Redis session store (src/storage/session_store.py) and the          *)
(* recommendation service that ties them together (src/service.py).        *)
(*                                                                         *)
(* Floats that only ever hold whole numbers (alpha, beta) are naturals.    *)
(* A quotient the code computes as a float is kept as the pair             *)
(* <<numerator, denominator>>.  A random draw is a nondeterministic        *)
(* choice.                                                                 *)
(***************************************************************************)
EXTENDS Integers, Sequences, FiniteSets, TLC

\* ------------------------------------------------------------------ bounds

\* Longest item list a bandit is constructed with on its own.
MaxItems == 2
\* Largest k passed to select_items directly.
MaxK == 3
\* Most bandit.update calls in one behaviour of the bandit specification.
MaxUpdates == 2
\* Largest session_length passed to should_use_coldstart directly.
MaxSessionLength == 4
\* Largest threshold a ColdStartHandler is constructed with.
MaxThreshold == 3
\* MetricsTracker(window_size): the size of both sliding windows.
window_size == 3
\* Most record_recommendation calls in one behaviour.
MaxRequests == 4

\* RecommendationService(top_k): the number of recommendations asked for.
top_k == 2
\* RecommendationService(sequence_length): the length of the model's input.
sequence_length == 2
\* Most get_recommendations and record_feedback calls in one behaviour of the
\* service.
MaxCalls == 2
\* Most record_feedback calls among them.
MaxFeedback == 1

\* Largest catalog the service is started with: one item more than top_k, so
\* that the model can fill a result with known items.
MaxCatalog == top_k + 1
\* Most clicks kept in one session: one more than the model's input holds.
MaxClicks == sequence_length + 1

\* SessionStore.expiry_seconds, in ticks of the clock that expires keys.
expiry_seconds == 2

\* Settings.cold_start_threshold, and ColdStartHandler's default.
cold_start_threshold == 2

\* The identifiers the model draws items from.
AllItems == <<"a", "b", "c", "d", "e">>

\* The identifiers a bandit on its own is constructed from (a list longer than
\* two repeats one).
ItemUniverse == {"a", "b"}

\* An identifier no catalog and no bandit ever holds.
UnknownItem == "zz"

\* The rewards update is called with: 1.0 and 0.0 (ColdStartHandler.update_feedback)
\* and, for direct callers, a negative and a larger positive one.
Rewards == {-1, 0, 1, 2}

VARIABLES
    \* ThompsonSamplingBandit
    item_ids,   \* the list the bandit was constructed with
    alpha,      \* item_id -> successes (Beta alpha)
    beta,       \* item_id -> failures (Beta beta)
    held,       \* item_id -> the (alpha, beta) pairs the item has held while
                \* threads share the bandit (kept by no code)
    file,       \* the file save_state writes: None, or Some(its JSON text)
    \* ColdStartHandler
    threshold,
    \* MetricsTracker
    hit_events,         \* deque(maxlen=window_size) of 0/1
    latencies,          \* deque(maxlen=window_size) of milliseconds
    total_requests,
    coldstart_requests,
    model_requests,
    \* every hit flag and every latency recorded since construction or the
    \* last reset, oldest first (kept by no code: what the windows are
    \* compared with)
    hits_recorded,
    latencies_recorded,
    lock,               \* self.lock: None, or Some(the thread that holds it)
    threads,            \* each thread calling a shared component: its place
                        \* and locals
    \* ItemCatalog
    items,              \* the keys of the items dict, in insertion order
    item_to_idx,
    idx_to_item,
    item_data,      \* item_id -> the metadata of the item (self.items)
    \* SessionStore: the Redis keys that exist, each with its stored string
    redis,
    \* the get_recommendations call in flight: its place and its locals
    req,
    \* number of record_feedback calls made
    feedbacks,
    \* number of get_recommendations calls that have returned
    returns,
    \* the last call made on a component alone, and what it returned
    last,
    \* item_id -> reward -> number of update(item_id, reward) calls made
    calls

banditVars == <<item_ids, alpha, beta, threshold, held, file>>

metricsVars ==
    <<hit_events, latencies, total_requests, coldstart_requests, model_requests,
      hits_recorded, latencies_recorded, lock, threads>>

catalogVars == <<items, item_to_idx, idx_to_item, item_data>>

serviceVars == <<catalogVars, redis, req, feedbacks, returns>>

vars == <<banditVars, metricsVars, serviceVars, last, calls>>

\* ----------------------------------------------------------------- helpers

Range(s) == {s[i] : i \in 1..Len(s)}

Min(a, b) == IF a < b THEN a ELSE b

NoDuplicates(s) == \A i, j \in 1..Len(s) : i # j => s[i] # s[j]

\* All sequences over S of length at most n.
SeqsUpTo(S, n) == UNION {[1..m -> S] : m \in 0..n}

\* Python's s[:k] for k >= 0.
Take(s, k) == SubSeq(s, 1, Min(k, Len(s)))

\* The keys of a dict built by iterating over s: each value once, in the order
\* of its first occurrence.
RECURSIVE DictKeys(_)
DictKeys(s) ==
    IF s = <<>> THEN <<>>
    ELSE LET front == DictKeys(SubSeq(s, 1, Len(s) - 1))
             x == s[Len(s)]
         IN  IF x \in Range(front) THEN front ELSE Append(front, x)

\* The record of a call: the same fields for every operation.
Call(op, item, num, flag, out) ==
    [op |-> op, item |-> item, num |-> num, flag |-> flag, out |-> out,
     raised |-> ""]

NoCall == Call("none", "", 0, FALSE, <<>>)

\* ------------------------------------------------- ThompsonSamplingBandit

\* __init__: alpha and beta start at 1.0 for every item of the list.
BanditInit(ids) ==
    /\ item_ids = ids
    /\ alpha = [i \in Range(ids) |-> 1]
    /\ beta = [i \in Range(ids) |-> 1]
    /\ held = [i \in Range(ids) |-> {<<1, 1>>}]
    /\ file = <<>>

\* One draw of np.random.beta per item: the values only matter through their
\* order, so a draw is a rank.
SampleSets(ids) == [Range(ids) -> 1..Cardinality(Range(ids))]

\* sorted(samples.items(), key=lambda x: x[1], reverse=True): stable, so equal
\* samples stay in dict order.
RECURSIVE SortedBySample(_, _)
SortedBySample(keys, samples) ==
    IF keys = <<>> THEN <<>>
    ELSE LET front == SortedBySample(SubSeq(keys, 1, Len(keys) - 1), samples)
             x == keys[Len(keys)]
             p == Cardinality({i \in 1..Len(front) : samples[front[i]] >= samples[x]})
         IN  SubSeq(front, 1, p) \o <<x>> \o SubSeq(front, p + 1, Len(front))

select_items_short(ids, samples, k) ==
    Take(SortedBySample(DictKeys(ids), samples), k - 1)

\* select_items(k) for one outcome of the draws.
select_items(ids, samples, k) == Take(SortedBySample(DictKeys(ids), samples), k)

\* Every list select_items(k) can return.
Selections(ids, k) == {select_items(ids, s, k) : s \in SampleSets(ids)}

update_alpha_addarm(ids, al, item_id, reward) ==
    IF reward > 0
    THEN IF item_id \in DOMAIN al THEN [al EXCEPT ![item_id] = @ + 1]
         ELSE al @@ (item_id :> 2)
    ELSE al

update_alpha_nonneg(ids, al, item_id, reward) ==
    IF item_id \in Range(ids) /\ reward >= 0
    THEN [al EXCEPT ![item_id] = @ + 1] ELSE al

\* update: the new alpha.
update_alpha(ids, al, item_id, reward) ==
    IF item_id \in Range(ids) /\ reward > 0
    THEN [al EXCEPT ![item_id] = @ + 1] ELSE al

\* An update whose success forgets the failures of the arm.
update_beta_forgetting(ids, be, item_id, reward) ==
    IF item_id \in Range(ids)
    THEN [be EXCEPT ![item_id] = IF reward > 0 THEN 1 ELSE @ + 1] ELSE be
\* update: the new beta.
update_beta(ids, be, item_id, reward) ==
    IF item_id \in Range(ids) /\ ~(reward > 0)
    THEN [be EXCEPT ![item_id] = @ + 1] ELSE be

\* get_statistics: estimated_ctr is (alpha - 1) / total, kept as <<alpha - 1, total>>.
get_statistics(ids, al, be) ==
    [i \in Range(ids) |->
        LET total == al[i] + be[i] - 2
        IN  [alpha |-> al[i],
             beta |-> be[i],
             estimated_ctr |-> IF total > 0 THEN <<al[i] - 1, total>> ELSE <<0, 1>>,
             total_impressions |-> total]]

\* --------------------------------------------------------- ColdStartHandler

should_use_coldstart_le(th, session_length) == session_length <= th

should_use_coldstart_gt(th, session_length) == session_length > th

should_use_coldstart(th, session_length) == session_length < th

FeedbackReward_always(clicked) == 1

\* update_feedback's reward.
FeedbackReward(clicked) == IF clicked THEN 1 ELSE 0

\* ----------------------------------------------------------- MetricsTracker

\* An Optional argument: <<>> is None, <<x>> is x.
None == <<>>

Some(x) == <<x>>

\* Python's truth value of an Optional[str]: None and "" are false.
Truthy(opt) == opt # None /\ opt[1] # ""

\* The threads that call one tracker at the same time.
Threads == {"t1", "t2"}

\* A thread that is in no call of the tracker. recorded and resets count the
\* record calls it has completed and the reset calls it has begun; contended
\* says that its last call began while another thread held the lock.
IdleThread ==
    [pc |-> "idle", op |-> "", args |-> <<>>, tmp |-> 0, acc |-> <<>>,
     summary |-> None, begun |-> 0, recorded |-> 0, resets |-> 0,
     contended |-> FALSE]

\* The latencies a call can take, in milliseconds.
Latencies == {10, 100}

\* __init__
MetricsInit ==
    /\ hit_events = <<>>
    /\ latencies = <<>>
    /\ total_requests = 0
    /\ coldstart_requests = 0
    /\ model_requests = 0
    /\ hits_recorded = <<>>
    /\ latencies_recorded = <<>>
    /\ lock = None
    /\ threads = [t \in Threads |-> IdleThread]

DequeAppend_keep_oldest(d, x) ==
    IF Len(d) >= window_size THEN d ELSE Append(d, x)

\* deque(maxlen=window_size).append: a full deque drops its oldest entry.
DequeAppend(d, x) ==
    IF window_size = 0 THEN d
    ELSE IF Len(d) >= window_size THEN Append(Tail(d), x)
    ELSE Append(d, x)

Hit_any_click(items_recommended, item_clicked) ==
    IF Truthy(item_clicked) THEN 1 ELSE 0

\* hit = 1 if item_clicked and item_clicked in items_recommended else 0
Hit(items_recommended, item_clicked) ==
    IF Truthy(item_clicked) /\ item_clicked[1] \in Range(items_recommended)
    THEN 1 ELSE 0

coldstart_count_always(n, used_coldstart) == n + 1

\* record_recommendation: the new coldstart_requests.
coldstart_count(n, used_coldstart) == IF used_coldstart THEN n + 1 ELSE n

model_count_windowed(n, used_coldstart) ==
    IF used_coldstart THEN n ELSE Min(n + 1, window_size)

\* record_recommendation: the new model_requests.
model_count(n, used_coldstart) == IF used_coldstart THEN n ELSE n + 1

\* record_recommendation as one step: the whole body, under the lock, of a call
\* that no other call of the tracker overlaps.
record_recommendation(items_recommended, item_clicked, latency_ms, used_coldstart) ==
    /\ lock = None
    /\ UNCHANGED <<lock, threads>>
    /\ hit_events' = DequeAppend(hit_events, Hit(items_recommended, item_clicked))
    /\ latencies' = IF latency_ms # None
                    THEN DequeAppend(latencies, latency_ms[1]) ELSE latencies
    /\ total_requests' = total_requests + 1
    /\ coldstart_requests' = coldstart_count(coldstart_requests, used_coldstart)
    /\ model_requests' = model_count(model_requests, used_coldstart)
    /\ hits_recorded' = Append(hits_recorded, Hit(items_recommended, item_clicked))
    /\ latencies_recorded' = IF latency_ms # None
                             THEN Append(latencies_recorded, latency_ms[1])
                             ELSE latencies_recorded

\* A reset that leaves the latency window.
reset_hits_only ==
    /\ lock = None
    /\ UNCHANGED <<lock, threads, latencies>>
    /\ hit_events' = <<>>
    /\ total_requests' = 0
    /\ coldstart_requests' = 0
    /\ model_requests' = 0
    /\ hits_recorded' = <<>>
    /\ latencies_recorded' = <<>>
\* A reset that zeroes the counters and leaves the windows.
reset_counters_only ==
    /\ lock = None
    /\ UNCHANGED <<lock, threads, hit_events, latencies>>
    /\ total_requests' = 0
    /\ coldstart_requests' = 0
    /\ model_requests' = 0
    /\ hits_recorded' = <<>>
    /\ latencies_recorded' = <<>>
\* reset as one step, under the lock.
reset ==
    /\ lock = None
    /\ UNCHANGED <<lock, threads>>
    /\ hit_events' = <<>>
    /\ latencies' = <<>>
    /\ total_requests' = 0
    /\ coldstart_requests' = 0
    /\ model_requests' = 0
    /\ hits_recorded' = <<>>
    /\ latencies_recorded' = <<>>

\* Python's sum over a deque of numbers.
RECURSIVE Sum(_)
Sum(s) == IF s = <<>> THEN 0 ELSE Head(s) + Sum(Tail(s))

\* round(num / den, 2) for num >= 0 and den > 0, in hundredths: the nearest
\* hundredth, a tie going to the even one.
round2(num, den) ==
    LET q == (100 * num) \div den
        r == (100 * num) % den
    IN  IF 2 * r < den THEN q
        ELSE IF 2 * r > den THEN q + 1
        ELSE IF q % 2 = 0 THEN q ELSE q + 1

\* _calculate_hit_rate, as the quotient it computes: (sum / len) * 100, and 0.0
\* for an empty window.
calculate_hit_rate(events) ==
    IF events = <<>> THEN <<0, 1>> ELSE <<100 * Sum(events), Len(events)>>

\* s with x put before the first entry larger than x.
RECURSIVE Insert(_, _)
Insert(s, x) ==
    IF s = <<>> THEN <<x>>
    ELSE IF x < Head(s) THEN <<x>> \o s
    ELSE <<Head(s)>> \o Insert(Tail(s), x)

\* The samples in ascending order.
RECURSIVE Sorted(_)
Sorted(s) == IF s = <<>> THEN <<>> ELSE Insert(Sorted(Tail(s)), Head(s))

\* The nearest-rank percentile: the sample at rank ceil(q/100 * n) of the
\* sorted samples, in hundredths.
percentile_nearest_rank(a, q) ==
    LET n == Len(a)
        rank == (q * n + 99) \div 100
    IN  100 * Sorted(a)[IF rank < 1 THEN 1 ELSE rank]

\* np.percentile(a, q) for a non-empty list, in hundredths. numpy's default
\* method is linear interpolation: the value at the fractional position
\* q/100 * (n - 1) of the sorted samples.
percentile(a, q) ==
    LET n == Len(a)
        sorted == Sorted(a)
        lower == (q * (n - 1)) \div 100
        hundredths == (q * (n - 1)) % 100
    IN  IF hundredths = 0 THEN 100 * sorted[lower + 1]
        ELSE 100 * sorted[lower + 1]
                + hundredths * (sorted[lower + 2] - sorted[lower + 1])

\* _calculate_p99_latency, in hundredths of a millisecond.
calculate_p99_latency(lats) == IF lats = <<>> THEN 0 ELSE percentile(lats, 99)

\* _calculate_p50_latency, in hundredths of a millisecond.
calculate_p50_latency(lats) == IF lats = <<>> THEN 0 ELSE percentile(lats, 50)

\* _calculate_average_latency, as the quotient np.mean computes.
calculate_average_latency(lats) ==
    IF lats = <<>> THEN <<0, 1>> ELSE <<Sum(lats), Len(lats)>>

\* A percentage that leaves out the factor 100.
coldstart_percentage_fraction(cold, total) ==
    IF total > 0 THEN round2(cold, total) ELSE 0
\* round(coldstart_requests / total_requests * 100 if total_requests > 0
\* else 0.0, 2), in hundredths.
coldstart_percentage(cold, total) ==
    IF total > 0 THEN round2(100 * cold, total) ELSE 0

\* get_metrics_summary, under the lock: every float rounded to two decimals
\* and kept in hundredths (6667 is 66.67).
get_metrics_summary ==
    LET hit_rate == calculate_hit_rate(hit_events)
        avg == calculate_average_latency(latencies)
    IN  [hit_rate_at_10 |-> round2(hit_rate[1], hit_rate[2]),
         p99_latency_ms |-> calculate_p99_latency(latencies),
         p50_latency_ms |-> calculate_p50_latency(latencies),
         avg_latency_ms |-> round2(avg[1], avg[2]),
         total_requests |-> total_requests,
         coldstart_requests |-> coldstart_requests,
         model_requests |-> model_requests,
         coldstart_percentage |->
            coldstart_percentage(coldstart_requests, total_requests)]

summary_frame_draining ==
    /\ lock = None
    /\ latencies' = <<>>
    /\ UNCHANGED <<hit_events, total_requests, coldstart_requests, model_requests,
                   hits_recorded, latencies_recorded, lock, threads>>

\* get_metrics_summary assigns to no field of the tracker.
summary_frame == lock = None /\ UNCHANGED metricsVars

\* -------------------------------------------------------------- ItemCatalog

\* add_items that numbers the items from 0.
AddItem_from_zero(cat, item_id) ==
    IF item_id \in DOMAIN cat.item_to_idx
    THEN cat
    ELSE LET idx == Cardinality(DOMAIN cat.item_to_idx)
         IN  [items |-> Append(cat.items, item_id),
              item_to_idx |-> cat.item_to_idx @@ (item_id :> idx),
              idx_to_item |-> cat.idx_to_item @@ (idx :> item_id)]
\* add_items without the membership test: every entry gets a new index.
AddItem_renumber(cat, item_id) ==
    LET idx == Cardinality(DOMAIN cat.item_to_idx) + 1
    IN  [items |-> IF item_id \in Range(cat.items) THEN cat.items
                   ELSE Append(cat.items, item_id),
         item_to_idx |-> [i \in DOMAIN cat.item_to_idx \cup {item_id} |->
                            IF i = item_id THEN idx ELSE cat.item_to_idx[i]],
         idx_to_item |-> [n \in DOMAIN cat.idx_to_item \cup {idx} |->
                            IF n = idx THEN item_id ELSE cat.idx_to_item[n]]]
\* add_items, one item: an id seen before keeps its index.
AddItem(cat, item_id) ==
    IF item_id \in DOMAIN cat.item_to_idx
    THEN cat
    ELSE LET idx == Cardinality(DOMAIN cat.item_to_idx) + 1
         IN  [items |-> Append(cat.items, item_id),
              item_to_idx |-> cat.item_to_idx @@ (item_id :> idx),
              idx_to_item |-> cat.idx_to_item @@ (idx :> item_id)]

\* add_items(items)
RECURSIVE add_items(_, _)
add_items(cat, new) ==
    IF new = <<>> THEN cat
    ELSE add_items(AddItem(cat, Head(new)), Tail(new))

\* ItemCatalog()
EmptyCatalog == [items |-> <<>>, item_to_idx |-> <<>>, idx_to_item |-> <<>>]

\* create_sample_catalog(num_items)
create_sample_catalog(num_items) ==
    add_items(EmptyCatalog, SubSeq(AllItems, 1, num_items))

\* get_item_index: 0 for an item the catalog does not hold.
get_item_index(item_id) ==
    IF item_id \in DOMAIN item_to_idx THEN item_to_idx[item_id] ELSE 0

\* get_item_id: "unknown" for an index the catalog does not hold.
get_item_id(idx) ==
    IF idx \in DOMAIN idx_to_item THEN idx_to_item[idx] ELSE "unknown"

\* get_all_item_ids
get_all_item_ids == items

\* get_num_items
get_num_items == Len(items)

\* ------------------------------------------------------------- SessionStore

SessionIds == {"s1"}

\* The item a client of the service clicks: the first one of the sample
\* catalog, which an empty catalog does not hold.
ClickItems == {AllItems[1]}

\* _get_session_key
session_key(session_id) == <<"session", session_id>>

\* json.dumps and json.loads of a list of clicks: the string holds the list.
json_dumps(data) == [json |-> data]

json_loads(str) == str.json

\* A SETEX that leaves the time to live of a key that exists.
setex_keep_ttl(key, seconds, value) ==
    [k \in DOMAIN redis \cup {key} |->
        IF k = key
        THEN [value |-> value,
              ttl |-> IF key \in DOMAIN redis THEN redis[key].ttl ELSE seconds,
              idle |-> 0]
        ELSE redis[k]]
\* redis_client.setex(key, seconds, value): Redis with the key holding the
\* value and seconds to live. idle counts the ticks since the key was set.
setex(key, seconds, value) ==
    [k \in DOMAIN redis \cup {key} |->
        IF k = key THEN [value |-> value, ttl |-> seconds, idle |-> 0]
        ELSE redis[k]]

\* get_session: the list of clicks, or None for a key that does not exist.
get_session(session_id) ==
    IF session_key(session_id) \in DOMAIN redis
    THEN Some(json_loads(redis[session_key(session_id)].value))
    ELSE None

\* A length read that takes a missing session for a warm one.
get_session_length_missing_warm(session_id) ==
    LET session_data == get_session(session_id)
    IN  IF session_data # None THEN Len(session_data[1]) ELSE cold_start_threshold
\* get_session_length
get_session_length(session_id) ==
    LET session_data == get_session(session_id)
    IN  IF session_data # None /\ session_data[1] # <<>>
        THEN Len(session_data[1]) ELSE 0

\* Python's s[-n:] for n >= 0; s[-0:] is s[0:], the whole list.
LastN(s, n) == IF Len(s) <= n \/ n = 0 THEN s ELSE SubSeq(s, Len(s) - n + 1, Len(s))

\* A sequence read that keeps the oldest max_length clicks.
get_item_sequence_oldest(session_id, max_length) ==
    LET session_data == get_session(session_id)
    IN  IF session_data = None \/ session_data[1] = <<>>
        THEN <<>>
        ELSE Take([i \in 1..Len(session_data[1]) |-> session_data[1][i].item_id],
                  max_length)
\* get_item_sequence
get_item_sequence(session_id, max_length) ==
    LET session_data == get_session(session_id)
    IN  IF session_data = None \/ session_data[1] = <<>>
        THEN <<>>
        ELSE LastN([i \in 1..Len(session_data[1]) |-> session_data[1][i].item_id],
                   max_length)

\* add_click: read the session, append the click, SETEX the key. The click's
\* timestamp is never read and is left out.
add_click(session_id, item_id) ==
    LET session_data == get_session(session_id)
        old == IF session_data = None THEN <<>> ELSE session_data[1]
        new == json_dumps(Append(old, [item_id |-> item_id]))
        key == session_key(session_id)
    IN  redis' = setex(key, expiry_seconds, new)

\* delete_session, and the expiry of a key whose time has run out.
delete_key(session_id) ==
    redis' = [k \in DOMAIN redis \ {session_key(session_id)} |-> redis[k]]

\* ------------------------------------------- the bandit and handler alone

NoCalls == [i \in ItemUniverse \cup {UnknownItem} |-> [r \in Rewards |-> 0]]

RECURSIVE SumOver(_, _)
SumOver(f, S) ==
    IF S = {} THEN 0
    ELSE LET x == CHOOSE y \in S : TRUE IN f[x] + SumOver(f, S \ {x})

\* Number of update calls made so far.
TotalCalls == SumOver([i \in DOMAIN calls |-> SumOver(calls[i], Rewards)], DOMAIN calls)

\* No get_recommendations call in flight.
IdleReq ==
    [pc |-> "idle", session_id |-> "", session_length |-> 0, item_indices |-> <<>>,
     path |-> "", fault |-> "", recommendations |-> <<>>, used_coldstart |-> FALSE,
     latency_ms |-> None]

\* The catalog, the session store and the service of a component checked alone.
ServiceUnused ==
    /\ items = <<>>
    /\ item_to_idx = <<>>
    /\ idx_to_item = <<>>
    /\ item_data = <<>>
    /\ redis = <<>>
    /\ req = IdleReq
    /\ feedbacks = 0
    /\ returns = 0

\* ThompsonSamplingBandit(item_ids) for any list, the empty one included: the
\* constructor checks nothing.
InitBandit ==
    /\ \E ids \in SeqsUpTo(ItemUniverse, MaxItems) : BanditInit(ids)
    /\ threshold = cold_start_threshold
    /\ MetricsInit
    /\ ServiceUnused
    /\ last = Call("__init__", "", 0, FALSE, <<>>)
    /\ calls = NoCalls

\* bandit.select_items(k)
SelectItems(k) ==
    /\ \E samples \in SampleSets(item_ids) :
          last' = Call("select_items", "", k, FALSE, select_items(item_ids, samples, k))
    /\ UNCHANGED <<banditVars, metricsVars, serviceVars, calls>>

\* bandit.update(item_id, reward)
Update(item_id, reward) ==
    /\ TotalCalls < MaxUpdates
    /\ alpha' = update_alpha(item_ids, alpha, item_id, reward)
    /\ beta' = update_beta(item_ids, beta, item_id, reward)
    /\ last' = Call("update", item_id, reward, FALSE, <<>>)
    /\ calls' = [calls EXCEPT ![item_id][reward] = @ + 1]
    /\ UNCHANGED <<item_ids, threshold, held, file, metricsVars, serviceVars>>

\* bandit.get_statistics()
GetStatistics ==
    /\ last' = Call("get_statistics", "", 0, FALSE, <<>>)
    /\ UNCHANGED <<banditVars, metricsVars, serviceVars, calls>>

\* handler.should_use_coldstart(session_length)
ShouldUseColdstart(session_length) ==
    /\ last' = Call("should_use_coldstart", "", session_length,
                    should_use_coldstart(threshold, session_length), <<>>)
    /\ UNCHANGED <<banditVars, metricsVars, serviceVars, calls>>

\* handler.get_recommendations(k)
HandlerGetRecommendations(k) ==
    /\ \E samples \in SampleSets(item_ids) :
          last' = Call("get_recommendations", "", k, FALSE,
                       select_items(item_ids, samples, k))
    /\ UNCHANGED <<banditVars, metricsVars, serviceVars, calls>>

\* handler.update_feedback(item_id, clicked)
UpdateFeedback(item_id, clicked) ==
    /\ TotalCalls < MaxUpdates
    /\ alpha' = update_alpha(item_ids, alpha, item_id, FeedbackReward(clicked))
    /\ beta' = update_beta(item_ids, beta, item_id, FeedbackReward(clicked))
    /\ last' = Call("update_feedback", item_id, 0, clicked, <<>>)
    /\ calls' = [calls EXCEPT ![item_id][FeedbackReward(clicked)] = @ + 1]
    /\ UNCHANGED <<item_ids, threshold, held, file, metricsVars, serviceVars>>

NextBandit ==
    \/ \E k \in 1..MaxK : SelectItems(k)
    \/ \E i \in ItemUniverse \cup {UnknownItem}, r \in Rewards : Update(i, r)
    \/ GetStatistics

SpecBandit == InitBandit /\ [][NextBandit]_vars

\* ColdStartHandler(bandit, threshold) over a bandit of two items.
InitHandler ==
    /\ BanditInit(<<"a", "b">>)
    /\ threshold \in 0..MaxThreshold
    /\ MetricsInit
    /\ ServiceUnused
    /\ last = Call("__init__", "", 0, FALSE, <<>>)
    /\ calls = NoCalls

NextHandler ==
    \/ \E n \in 0..MaxSessionLength : ShouldUseColdstart(n)
    \/ \E k \in 1..MaxK : HandlerGetRecommendations(k)
    \/ \E i \in ItemUniverse \cup {UnknownItem}, c \in BOOLEAN : UpdateFeedback(i, c)

SpecHandler == InitHandler /\ [][NextHandler]_vars

\* Calls update(i, r) made so far with r > 0, and with any other r.
PositiveCalls(i) == SumOver(calls[i], {r \in Rewards : r > 0})

OtherCalls(i) == SumOver(calls[i], {r \in Rewards : ~(r > 0)})

\* C5: for a bandit of at least one item and k >= 1, select_items(k) returns
\* exactly min(k, number of distinct items) identifiers, all distinct and all
\* items of the bandit, whatever the counters are.
C5_SelectReturnsMinKDistinct ==
    (last.op = "select_items" /\ Len(item_ids) >= 1 /\ last.num >= 1)
    => /\ Len(last.out) = Min(last.num, Cardinality(Range(item_ids)))
       /\ NoDuplicates(last.out)
       /\ Range(last.out) \subseteq Range(item_ids)

\* C5: a selection of more than one item, cut by k, from a bandit whose
\* counters have moved.
C5_Witness ==
    /\ last.op = "select_items"
    /\ last.num = 1
    /\ Len(last.out) = 1
    /\ Cardinality(Range(item_ids)) = 2
    /\ \E i \in Range(item_ids) : alpha[i] > 1
    /\ \E i \in Range(item_ids) : beta[i] > 1

\* C6: an item updated n times with a reward > 0 (1.0) and m times with any
\* other reward (0.0) has successes 1 + n, failures 1 + m, n + m impressions and
\* estimated_ctr n / (n + m), or 0 when n + m = 0.
C6_CountersFollowUpdates ==
    \A i \in Range(item_ids) :
        LET n == PositiveCalls(i)
            m == OtherCalls(i)
            st == get_statistics(item_ids, alpha, beta)[i]
        IN  /\ alpha[i] = 1 + n
            /\ beta[i] = 1 + m
            /\ st.alpha = 1 + n
            /\ st.beta = 1 + m
            /\ st.total_impressions = n + m
            /\ st.estimated_ctr[2] > 0
            /\ st.estimated_ctr[1] * (IF n + m > 0 THEN n + m ELSE 1)
                 = (IF n + m > 0 THEN n ELSE 0) * st.estimated_ctr[2]

\* C6: one update(item, 1.0) and one update(item, 0.0) on the same item.
C6_Witness ==
    \E i \in Range(item_ids) :
        /\ calls[i][1] = 1
        /\ calls[i][0] = 1
        /\ get_statistics(item_ids, alpha, beta)[i].estimated_ctr = <<1, 2>>

\* C7: update with an item_id that is not one of the bandit's items raises
\* nothing, adds no arm and changes no counter.
C7_UnknownItemIsNoOp ==
    [][(last'.op = "update" /\ last'.item \notin Range(item_ids))
        => /\ last'.raised = ""
           /\ item_ids' = item_ids
           /\ alpha' = alpha
           /\ beta' = beta
           /\ DOMAIN alpha' = Range(item_ids)]_vars

\* C7: an update with a positive reward for an unknown item, on a bandit that
\* has items.
C7_Witness ==
    /\ last.op = "update"
    /\ last.item = UnknownItem
    /\ last.num = 1
    /\ Len(item_ids) >= 1
    /\ calls[UnknownItem][1] = 1

\* C8: the constructor sets successes = failures = 1 for every item, and
\* fails with InvalidInput for an empty item list.
C8_EmptyInitFails ==
    last.op = "__init__"
    => /\ \A i \in Range(item_ids) : alpha[i] = 1 /\ beta[i] = 1
       /\ item_ids = <<>> => last.raised = "InvalidInput"

\* C9: should_use_coldstart(n) returns n < threshold (so FALSE at
\* n = threshold) and changes neither the bandit nor the handler.
C9_ShouldUseColdstartIffBelow ==
    [][last'.op = "should_use_coldstart"
        => /\ last'.flag = (last'.num < threshold)
           /\ (last'.num = threshold => last'.flag = FALSE)
           /\ UNCHANGED <<item_ids, alpha, beta, threshold>>]_vars

\* C9: the call at the boundary, session_length = threshold.
C9_Witness ==
    /\ last.op = "should_use_coldstart"
    /\ last.num = threshold
    /\ last.flag = FALSE

\* ------------------------------------------------ the metrics tracker alone

\* The lists of recommended items record_recommendation is called with.
ShownLists == {<<>>, <<"a">>, <<"a", "b">>, <<"", "b">>}

\* The Optional[str] values item_clicked takes.
ClickedValues == {None, Some(""), Some("a"), Some("b"), Some(UnknownItem)}

InitMetrics ==
    /\ BanditInit(<<AllItems[1]>>)
    /\ threshold = cold_start_threshold
    /\ MetricsInit
    /\ ServiceUnused
    /\ last = Call("__init__", "", 0, FALSE, <<>>)
    /\ calls = NoCalls

\* tracker.record_recommendation(items_recommended, item_clicked, latency_ms,
\* used_coldstart)
RecordRecommendation(items_recommended, item_clicked, latency_ms, used_coldstart) ==
    /\ total_requests < MaxRequests
    /\ record_recommendation(items_recommended, item_clicked, latency_ms, used_coldstart)
    /\ last' = Call("record_recommendation",
                    IF item_clicked = None THEN "" ELSE item_clicked[1],
                    IF latency_ms = None THEN -1 ELSE latency_ms[1],
                    used_coldstart, items_recommended)
    /\ UNCHANGED <<banditVars, serviceVars, calls>>

\* tracker.reset()
Reset ==
    /\ reset
    /\ last' = Call("reset", "", total_requests, FALSE, <<>>)
    /\ UNCHANGED <<banditVars, serviceVars, calls>>

\* tracker.get_metrics_summary()
GetMetricsSummary ==
    /\ summary_frame
    /\ last' = Call("get_metrics_summary", "", 0, FALSE, <<get_metrics_summary>>)
    /\ UNCHANGED <<banditVars, serviceVars, calls>>

NextMetrics ==
    \/ \E shown \in ShownLists, clicked \in ClickedValues,
          lat \in {None} \cup {Some(l) : l \in Latencies}, cs \in BOOLEAN :
            RecordRecommendation(shown, clicked, lat, cs)
    \/ GetMetricsSummary
    \/ Reset

SpecMetrics == InitMetrics /\ [][NextMetrics]_vars

\* ----------------------------------------------------- RecommendationService

\* Python's [0] * n
RECURSIVE Zeros(_)
Zeros(n) == IF n <= 0 THEN <<>> ELSE <<0>> \o Zeros(n - 1)

\* A padding that puts the zeros after the items.
PadSequence_right(ids) ==
    LET item_indices == [i \in 1..Len(ids) |-> get_item_index(ids[i])]
    IN  IF Len(item_indices) < sequence_length
        THEN item_indices \o Zeros(sequence_length - Len(item_indices))
        ELSE LastN(item_indices, sequence_length)
\* _get_model_recommendations: item ids to indices, left-padded with 0 or cut
\* to the last sequence_length.
PadSequence(ids) ==
    LET item_indices == [i \in 1..Len(ids) |-> get_item_index(ids[i])]
    IN  IF Len(item_indices) < sequence_length
        THEN Zeros(sequence_length - Len(item_indices)) \o item_indices
        ELSE LastN(item_indices, sequence_length)

\* SASRec(num_items).predict_next_items(item_seq, top_k): torch.topk over the
\* num_items logits of the output layer, so k distinct indices of
\* 0..num_items-1 in some order; torch.topk raises when k > num_items.
Predictions(num_items, k) ==
    {t \in [1..k -> 0..(num_items - 1)] : NoDuplicates(t)}

\* The indices back to item ids with nothing filtered out.
KnownItems_unfiltered(top_items) ==
    [n \in 1..Len(top_items) |-> get_item_id(top_items[n])]
\* The indices back to item ids, without those that map to no item.
RECURSIVE KnownItems(_)
KnownItems(top_items) ==
    IF top_items = <<>> THEN <<>>
    ELSE LET item_id == get_item_id(Head(top_items))
         IN  (IF item_id # "unknown" THEN <<item_id>> ELSE <<>>)
                \o KnownItems(Tail(top_items))

RECURSIVE supplement_all(_, _)
supplement_all(recommendations, coldstart_recs) ==
    IF coldstart_recs = <<>> THEN recommendations
    ELSE LET added == Append(recommendations, Head(coldstart_recs))
         IN  IF Len(added) >= top_k THEN added
             ELSE supplement_all(added, Tail(coldstart_recs))

supplement_first(recommendations, coldstart_recs) ==
    IF coldstart_recs = <<>> \/ Head(coldstart_recs) \in Range(recommendations)
    THEN recommendations
    ELSE Append(recommendations, Head(coldstart_recs))

\* The supplement loop: append each cold-start item not yet recommended, and
\* stop once there are top_k.
RECURSIVE supplement(_, _)
supplement(recommendations, coldstart_recs) ==
    IF coldstart_recs = <<>> THEN recommendations
    ELSE LET rec == Head(coldstart_recs)
             added == IF rec \notin Range(recommendations)
                      THEN Append(recommendations, rec) ELSE recommendations
         IN  IF Len(added) >= top_k THEN added
             ELSE supplement(added, Tail(coldstart_recs))

model_used_coldstart_if_supplemented(valid) == valid < top_k

\* get_recommendations, model branch: used_coldstart = False however many
\* valid identifiers the scorer gave.
model_used_coldstart(valid) == FALSE

\* startup_event: the sample catalog, a bandit over its item ids, the handler
\* with the configured threshold, empty metrics and an empty session store.
Init ==
    /\ \E n \in 0..MaxCatalog :
         LET cat == create_sample_catalog(n)
         IN  /\ items = cat.items
             /\ item_to_idx = cat.item_to_idx
             /\ idx_to_item = cat.idx_to_item
             /\ item_data = [i \in Range(cat.items) |-> "Product"]
             /\ BanditInit(cat.items)
    /\ threshold = cold_start_threshold
    /\ MetricsInit
    /\ redis = <<>>
    /\ req = IdleReq
    /\ feedbacks = 0
    /\ returns = 0
    /\ last = NoCall
    /\ calls = NoCalls

\* add_click_event(session_id, item_id)
AddClickEvent(session_id, item_id) ==
    /\ get_session_length(session_id) < MaxClicks
    /\ add_click(session_id, item_id)
    /\ UNCHANGED <<banditVars, metricsVars, catalogVars, req, feedbacks, returns, last, calls>>

\* session_store.delete_session(session_id)
DeleteSession(session_id) ==
    /\ delete_key(session_id)
    /\ UNCHANGED <<banditVars, metricsVars, catalogVars, req, feedbacks, returns, last, calls>>

\* Redis drops a key whose expiry time has passed.
Expire(session_id) ==
    /\ session_key(session_id) \in DOMAIN redis
    /\ delete_key(session_id)
    /\ UNCHANGED <<banditVars, metricsVars, catalogVars, req, feedbacks, returns, last, calls>>

\* get_recommendations, to the end of the routing: the timer starts, the
\* session length is read (Redis may fail), and a cold session gets the
\* bandit's selection.
GetRecommendations(session_id) ==
    /\ req.pc = "idle"
    /\ total_requests < MaxCalls
    /\ \/ req' = [IdleReq EXCEPT !.pc = "raised", !.session_id = session_id,
                                 !.fault = "session_store"]
       \/ LET session_length == get_session_length(session_id)
              started == [IdleReq EXCEPT !.session_id = session_id,
                                         !.session_length = session_length]
          IN  IF should_use_coldstart(threshold, session_length)
              THEN \E coldstart_recs \in Selections(item_ids, top_k) :
                     req' = [started EXCEPT
                               !.pc = "record",
                               !.path = "coldstart",
                               !.recommendations = coldstart_recs,
                               !.used_coldstart = TRUE]
              ELSE req' = [started EXCEPT !.pc = "model", !.path = "model"]
    /\ UNCHANGED <<banditVars, metricsVars, catalogVars, redis, feedbacks, returns, last, calls>>

\* _get_model_recommendations, the read of the item sequence (Redis may fail):
\* an empty sequence returns the bandit's selection, and get_recommendations
\* then sets used_coldstart = False.
ModelReadSequence ==
    /\ req.pc = "model"
    /\ \/ req' = [req EXCEPT !.pc = "raised", !.fault = "session_store"]
       \/ LET ids == get_item_sequence(req.session_id, sequence_length)
          IN  IF ids = <<>>
              THEN \E coldstart_recs \in Selections(item_ids, top_k) :
                     req' = [req EXCEPT
                               !.pc = "record",
                               !.path = "empty_sequence",
                               !.recommendations = coldstart_recs,
                               !.used_coldstart = FALSE]
              ELSE req' = [req EXCEPT !.pc = "predict",
                                      !.item_indices = PadSequence(ids)]
    /\ UNCHANGED <<banditVars, metricsVars, catalogVars, redis, feedbacks, returns, last, calls>>

\* _get_model_recommendations, from the model's call to its return: the scorer
\* answers or raises, unknown items are dropped, a short list is supplemented
\* from the bandit and the result is cut to top_k.
ModelPredict ==
    /\ req.pc = "predict"
    /\ \/ req' = [req EXCEPT !.pc = "raised", !.fault = "scorer",
                             !.item_indices = <<>>]
       \/ \E coldstart_recs \in Selections(item_ids, top_k),
             top_items \in Predictions(get_num_items, top_k) :
            LET recommendations == KnownItems(top_items)
            IN  IF Len(recommendations) < top_k
                THEN   req' = [req EXCEPT
                                 !.pc = "record",
                                 !.path = "supplemented",
                                 !.item_indices = <<>>,
                                 !.recommendations =
                                    Take(supplement(recommendations, coldstart_recs),
                                         top_k),
                                 !.used_coldstart =
                                    model_used_coldstart(Len(recommendations))]
                ELSE req' = [req EXCEPT
                               !.pc = "record",
                               !.item_indices = <<>>,
                               !.recommendations = Take(recommendations, top_k),
                               !.used_coldstart =
                                    model_used_coldstart(Len(recommendations))]
    /\ UNCHANGED <<banditVars, metricsVars, catalogVars, redis, feedbacks, returns, last, calls>>

request_record_args_no_latency(recommendations, elapsed, used_coldstart) ==
    <<recommendations, None, None, used_coldstart>>

\* get_recommendations' call of the tracker: the result, no clicked item, the
\* timer's latency and the strategy flag.
request_record_args(recommendations, elapsed, used_coldstart) ==
    <<recommendations, None, Some(elapsed), used_coldstart>>

\* get_recommendations, after the with block: the timer has stopped and the
\* metrics are recorded.
RecordMetrics ==
    /\ req.pc = "record"
    /\ \E elapsed \in Latencies :
         /\ LET args == request_record_args(req.recommendations, elapsed,
                                            req.used_coldstart)
            IN  record_recommendation(args[1], args[2], args[3], args[4])
         /\ req' = [req EXCEPT !.pc = "return", !.latency_ms = Some(elapsed)]
    /\ UNCHANGED <<banditVars, catalogVars, redis, feedbacks, returns, last, calls>>

\* get_recommendations returns (recommendations, used_coldstart).
Return ==
    /\ req.pc = "return"
    /\ req' = IdleReq
    /\ returns' = returns + 1
    /\ UNCHANGED <<banditVars, metricsVars, catalogVars, redis, feedbacks, last, calls>>

\* The exception leaves get_recommendations: the with block's __exit__ returns
\* False, nothing is recorded, and the API answers 500.
Propagate ==
    /\ req.pc = "raised"
    /\ req' = IdleReq
    /\ UNCHANGED <<banditVars, metricsVars, catalogVars, redis, feedbacks, returns, last, calls>>

\* Feedback that counts once per arm: an arm that has any feedback is left.
feedback_updates_once(ab, recommended_items, clicked_item) ==
    LET shown(i) == Cardinality({n \in 1..Len(recommended_items) :
                                    recommended_items[n] = i})
        fresh(i) == ab.alpha[i] + ab.beta[i] = 2
    IN  [alpha |-> [i \in DOMAIN ab.alpha |->
                      IF fresh(i) /\ clicked_item = Some(i)
                      THEN ab.alpha[i] + shown(i) ELSE ab.alpha[i]],
         beta |-> [i \in DOMAIN ab.beta |->
                      IF fresh(i) /\ clicked_item # Some(i)
                      THEN ab.beta[i] + shown(i) ELSE ab.beta[i]]]
\* The bandit after update_feedback(item_id, clicked_item == item_id) for each
\* recommended item in turn.
RECURSIVE feedback_updates(_, _, _)
feedback_updates(ab, recommended_items, clicked_item) ==
    IF recommended_items = <<>> THEN ab
    ELSE LET item_id == Head(recommended_items)
             reward == FeedbackReward(clicked_item = Some(item_id))
         IN  feedback_updates(
                [alpha |-> update_alpha(item_ids, ab.alpha, item_id, reward),
                 beta |-> update_beta(item_ids, ab.beta, item_id, reward)],
                Tail(recommended_items), clicked_item)

\* The lists of shown items record_feedback is called with: two items of the
\* catalog, and one item twice followed by an item the catalog does not hold.
FeedbackLists == {<<"a", "b">>, <<"a", "a", UnknownItem>>}

\* A feedback record that carries a latency.
feedback_record_args_timed(recommended_items, clicked_item) ==
    <<recommended_items, clicked_item, Some(10), FALSE>>
feedback_record_args_as_shown(recommended_items, clicked_item) ==
    <<recommended_items, clicked_item, None, coldstart_requests > 0>>

\* record_feedback's call of the tracker: items_recommended and item_clicked
\* given, latency_ms and used_coldstart left at their defaults.
feedback_record_args(recommended_items, clicked_item) ==
    <<recommended_items, clicked_item, None, FALSE>>

\* The body of record_feedback: one sample for the tracker, then one update
\* per shown item. last.num counts the calls in a row with these arguments.
record_feedback(recommended_items, clicked_item) ==
    /\ LET args == feedback_record_args(recommended_items, clicked_item)
       IN  record_recommendation(args[1], args[2], args[3], args[4])
    /\ LET ab == feedback_updates([alpha |-> alpha, beta |-> beta],
                                  recommended_items, clicked_item)
       IN  alpha' = ab.alpha /\ beta' = ab.beta
    /\ feedbacks' = feedbacks + 1
    /\ LET item == IF clicked_item = None THEN "" ELSE clicked_item[1]
           again == /\ last.op = "record_feedback"
                    /\ last.item = item
                    /\ last.flag = (clicked_item # None)
                    /\ last.out = recommended_items
       IN  last' = Call("record_feedback", item, IF again THEN last.num + 1 ELSE 1,
                        clicked_item # None, recommended_items)
    /\ UNCHANGED <<item_ids, threshold, held, file, catalogVars, redis, req, returns,
                   calls>>

\* record_feedback(session_id, recommended_items, clicked_item)
RecordFeedback(session_id, recommended_items, clicked_item) ==
    /\ feedbacks < MaxFeedback
    /\ total_requests < MaxCalls
    /\ record_feedback(recommended_items, clicked_item)

Next ==
    \/ \E sid \in SessionIds, i \in ClickItems : AddClickEvent(sid, i)
    \/ \E sid \in SessionIds : DeleteSession(sid)
    \/ \E sid \in SessionIds : Expire(sid)
    \/ \E sid \in SessionIds : GetRecommendations(sid)
    \/ ModelReadSequence
    \/ ModelPredict
    \/ RecordMetrics
    \/ Return
    \/ Propagate
    \/ \E sid \in SessionIds, shown \in FeedbackLists,
          clicked \in {None, Some("b")} :
            RecordFeedback(sid, shown, clicked)

Spec == Init /\ [][Next]_vars

\* The get_recommendations call in flight has its result.
HasResult == req.pc \in {"record", "return"}

\* C1: get_recommendations routes by the stored session length: below the
\* threshold the result is a select_items(top_k) of the bandit and
\* used_coldstart is true, at or above it the model path is taken; with
\* threshold 2, 0 or 1 clicks are served by cold-start and 2 or more by the
\* model path.
C1_RoutesBySessionLength ==
    /\ [][(req.pc = "idle" /\ req'.pc \notin {"idle", "raised"})
            => LET n == get_session_length(req'.session_id)
               IN  /\ req'.session_length = n
                   /\ n < threshold
                        => /\ req'.pc = "record"
                           /\ req'.path = "coldstart"
                           /\ req'.used_coldstart
                           /\ req'.recommendations \in Selections(item_ids, top_k)
                   /\ n >= threshold => req'.pc = "model" /\ req'.path = "model"]_vars
    /\ [](HasResult => /\ req.session_length \in {0, 1} <=> req.path = "coldstart"
                       /\ req.path = "coldstart" => req.used_coldstart)

\* C1: a session of one click served by cold-start with a full list.
C1_Witness ==
    /\ req.pc = "return"
    /\ req.session_length = 1
    /\ req.used_coldstart
    /\ Len(req.recommendations) = top_k

\* C2: a non-cold request whose sequence read or scorer raises still
\* returns: a non-empty cold-start result with used_coldstart = true.
C2_FaultFallsBackToColdStart ==
    (req.path = "model" /\ req.fault \in {"session_store", "scorer"})
    => /\ HasResult
       /\ req.used_coldstart
       /\ req.recommendations # <<>>

\* C3: a non-cold session whose item sequence reads back empty gets the
\* cold-start selection and used_coldstart = true.
C3_EmptySequenceReportsColdStart ==
    (HasResult /\ req.path = "empty_sequence")
    => /\ req.recommendations \in Selections(item_ids, top_k)
       /\ req.used_coldstart

\* C4: every result of get_recommendations, on the cold-start, model and
\* supplemented paths, has at most top_k identifiers and none twice.
C4_ResultShortAndDistinct ==
    HasResult
    => /\ Len(req.recommendations) <= top_k
       /\ NoDuplicates(req.recommendations)

\* C4: a model result of one known item, supplemented to top_k by the bandit.
C4_Witness ==
    /\ req.pc = "return"
    /\ req.path = "supplemented"
    /\ Len(req.recommendations) = top_k
    /\ top_k >= 2

\* C10: every record_recommendation adds one to total_requests and one to
\* exactly one of coldstart_requests (used_coldstart) and model_requests
\* (otherwise), so total_requests = coldstart_requests + model_requests in
\* every state, after a reset too.
C10_TotalIsColdPlusModel ==
    /\ [](total_requests = coldstart_requests + model_requests)
    /\ [][last'.op = "record_recommendation"
            => /\ total_requests' = total_requests + 1
               /\ coldstart_requests' =
                    coldstart_requests + (IF last'.flag THEN 1 ELSE 0)
               /\ model_requests' = model_requests + (IF last'.flag THEN 0 ELSE 1)]_vars

\* C10: requests of both kinds recorded after a reset.
C10_Witness ==
    /\ last.op = "record_recommendation"
    /\ coldstart_requests = 1
    /\ model_requests = 1
    /\ Len(hit_events) = 2

\* C11: the hit window and the latency window each hold at most window_size
\* samples, and they are the most recently recorded ones in recording order:
\* once more than window_size samples were recorded the oldest are gone.
C11_WindowsHoldMostRecent ==
    /\ Len(hit_events) <= window_size
    /\ Len(latencies) <= window_size
    /\ hit_events = LastN(hits_recorded, window_size)
    /\ latencies = LastN(latencies_recorded, window_size)

\* More samples than a window holds were recorded in both windows, and the
\* evicted oldest sample differs from the one now at the front.
C11_Witness ==
    /\ Len(hits_recorded) > window_size
    /\ Len(latencies_recorded) > window_size
    /\ Len(hit_events) = window_size
    /\ Len(latencies) = window_size
    /\ hits_recorded[1] # hit_events[1]
    /\ latencies_recorded[1] # latencies[1]

\* ------------------------------- the metrics tracker under concurrent callers

\* The arguments the concurrent callers record with: a clicked cold-start
\* request with a latency, and a feedback-style call without one.
ConcurrentRecords ==
    {<<<<"a">>, Some("a"), Some(10), TRUE>>, <<<<"a", "b">>, None, None, FALSE>>}

lock_is_free_always(l) == TRUE

\* with self.lock: a thread enters only while no thread holds the lock.
lock_is_free(l) == l = None

\* Number of calls the threads have begun.
CallsBegun == SumOver([u \in Threads |-> threads[u].begun], Threads)

\* Number of record calls the threads have completed.
RecordsCompleted == SumOver([u \in Threads |-> threads[u].recorded], Threads)

\* Number of reset calls the threads have begun.
ResetsBegun == SumOver([u \in Threads |-> threads[u].resets], Threads)

\* The fields of the tracker, as one record.
Tracker ==
    [hit_events |-> hit_events, latencies |-> latencies,
     total_requests |-> total_requests, coldstart_requests |-> coldstart_requests,
     model_requests |-> model_requests, hits_recorded |-> hits_recorded,
     latencies_recorded |-> latencies_recorded]

\* The fields of the tracker become those of m.
SetTracker(m) ==
    /\ hit_events' = m.hit_events
    /\ latencies' = m.latencies
    /\ total_requests' = m.total_requests
    /\ coldstart_requests' = m.coldstart_requests
    /\ model_requests' = m.model_requests
    /\ hits_recorded' = m.hits_recorded
    /\ latencies_recorded' = m.latencies_recorded

\* Thread t moves to pc with its local tmp set.
Goto(t, pc, tmp) ==
    threads' = [threads EXCEPT ![t] = [@ EXCEPT !.pc = pc, !.tmp = tmp]]

\* The first statement inside the with block of each method.
FirstStep(op) ==
    CASE op = "record" -> "hit"
      [] op = "summary" -> "hit_rate"
      [] op = "reset" -> "clear_hits"

\* A thread calls record_recommendation, get_metrics_summary or reset.
Begin(t, op, args) ==
    /\ threads[t].pc = "idle"
    /\ CallsBegun < MaxRequests
    /\ threads' = [threads EXCEPT ![t] =
            [@ EXCEPT !.pc = "acquire", !.op = op, !.args = args, !.tmp = 0,
                      !.acc = <<>>, !.summary = None, !.begun = @ + 1,
                      !.resets = IF op = "reset" THEN @ + 1 ELSE @,
                      !.contended = lock # None]]
    /\ UNCHANGED <<lock, banditVars, serviceVars, last, calls>>
    /\ SetTracker(Tracker)

BeginRecord(t, args) == Begin(t, "record", args)

BeginSummary(t) == Begin(t, "summary", <<>>)

BeginReset(t) == Begin(t, "reset", <<>>)

\* with self.lock: __enter__
Acquire(t) ==
    /\ threads[t].pc = "acquire"
    /\ lock_is_free(lock)
    /\ lock' = Some(t)
    /\ Goto(t, FirstStep(threads[t].op), 0)
    /\ SetTracker(Tracker)
    /\ UNCHANGED <<banditVars, serviceVars, last, calls>>

\* One statement of record_recommendation's body; += is a read and a write.
RecordStep(t) ==
    LET th == threads[t]
        used_coldstart == th.args[4]
    IN  /\ th.op = "record"
        /\ \/ /\ th.pc = "hit"
              /\ LET hit == Hit(th.args[1], th.args[2])
                 IN  SetTracker([Tracker EXCEPT
                        !.hit_events = DequeAppend(@, hit),
                        !.hits_recorded = Append(@, hit)])
              /\ Goto(t, "latency", 0)
           \/ /\ th.pc = "latency"
              /\ SetTracker(IF th.args[3] # None
                            THEN [Tracker EXCEPT
                                    !.latencies = DequeAppend(@, th.args[3][1]),
                                    !.latencies_recorded = Append(@, th.args[3][1])]
                            ELSE Tracker)
              /\ Goto(t, "load_total", 0)
           \/ /\ th.pc = "load_total"
              /\ SetTracker(Tracker)
              /\ Goto(t, "store_total", total_requests)
           \/ /\ th.pc = "store_total"
              /\ SetTracker([Tracker EXCEPT !.total_requests = th.tmp + 1])
              /\ Goto(t, "load_count", 0)
           \/ /\ th.pc = "load_count"
              /\ SetTracker(Tracker)
              /\ Goto(t, "store_count",
                      IF used_coldstart THEN coldstart_requests ELSE model_requests)
           \/ /\ th.pc = "store_count"
              /\ SetTracker(IF used_coldstart
                            THEN [Tracker EXCEPT !.coldstart_requests =
                                    coldstart_count(th.tmp, TRUE)]
                            ELSE [Tracker EXCEPT !.model_requests =
                                    model_count(th.tmp, FALSE)])
              /\ Goto(t, "release", 0)
        /\ UNCHANGED <<lock, banditVars, serviceVars, last, calls>>

\* Thread t's summary gets one more entry and t moves on.
Entry(t, pc, key, value) ==
    threads' = [threads EXCEPT ![t] =
        [@ EXCEPT !.pc = pc, !.acc = @ @@ (key :> value)]]

\* One entry of the dict get_metrics_summary builds, in the order written.
SummaryStep(t) ==
    LET th == threads[t]
        now == get_metrics_summary
    IN  /\ th.op = "summary"
        /\ \/ th.pc = "hit_rate"
              /\ Entry(t, "p99", "hit_rate_at_10", now.hit_rate_at_10)
           \/ th.pc = "p99"
              /\ Entry(t, "p50", "p99_latency_ms", now.p99_latency_ms)
           \/ th.pc = "p50"
              /\ Entry(t, "avg", "p50_latency_ms", now.p50_latency_ms)
           \/ th.pc = "avg"
              /\ Entry(t, "total", "avg_latency_ms", now.avg_latency_ms)
           \/ th.pc = "total"
              /\ Entry(t, "coldstart", "total_requests", now.total_requests)
           \/ th.pc = "coldstart"
              /\ Entry(t, "model", "coldstart_requests", now.coldstart_requests)
           \/ th.pc = "model"
              /\ Entry(t, "pct", "model_requests", now.model_requests)
           \/ th.pc = "pct"
              /\ Entry(t, "release", "coldstart_percentage", now.coldstart_percentage)
        /\ SetTracker(Tracker)
        /\ UNCHANGED <<lock, banditVars, serviceVars, last, calls>>

\* One statement of reset's body.
ResetStep(t) ==
    LET th == threads[t]
    IN  /\ th.op = "reset"
        /\ \/ /\ th.pc = "clear_hits"
              /\ SetTracker([Tracker EXCEPT !.hit_events = <<>>,
                                            !.hits_recorded = <<>>])
              /\ Goto(t, "clear_latencies", 0)
           \/ /\ th.pc = "clear_latencies"
              /\ SetTracker([Tracker EXCEPT !.latencies = <<>>,
                                            !.latencies_recorded = <<>>])
              /\ Goto(t, "zero_total", 0)
           \/ /\ th.pc = "zero_total"
              /\ SetTracker([Tracker EXCEPT !.total_requests = 0])
              /\ Goto(t, "zero_coldstart", 0)
           \/ /\ th.pc = "zero_coldstart"
              /\ SetTracker([Tracker EXCEPT !.coldstart_requests = 0])
              /\ Goto(t, "zero_model", 0)
           \/ /\ th.pc = "zero_model"
              /\ SetTracker([Tracker EXCEPT !.model_requests = 0])
              /\ Goto(t, "release", 0)
        /\ UNCHANGED <<lock, banditVars, serviceVars, last, calls>>

\* with self.lock: __exit__, and the method returns.
Release(t) ==
    /\ threads[t].pc = "release"
    /\ lock' = None
    /\ threads' = [threads EXCEPT ![t] =
            [@ EXCEPT !.pc = "idle",
                      !.recorded = IF threads[t].op = "record" THEN @ + 1 ELSE @,
                      !.summary = IF threads[t].op = "summary"
                                  THEN Some(threads[t].acc) ELSE None]]
    /\ SetTracker(Tracker)
    /\ UNCHANGED <<banditVars, serviceVars, last, calls>>

NextConcurrent ==
    \E t \in Threads :
        \/ \E args \in ConcurrentRecords : BeginRecord(t, args)
        \/ BeginSummary(t)
        \/ BeginReset(t)
        \/ Acquire(t)
        \/ RecordStep(t)
        \/ SummaryStep(t)
        \/ ResetStep(t)
        \/ Release(t)

SpecConcurrent == InitMetrics /\ [][NextConcurrent]_vars

\* C12: record, summary and reset run one at a time under the lock. Between
\* calls the counters add up; while no reset was called, total_requests is the
\* number of completed record calls and the hit window holds min(n,
\* window_size) samples; and every summary returned has total_requests =
\* coldstart_requests + model_requests.
C12_CallsAreAtomic ==
    /\ lock = None =>
         /\ total_requests = coldstart_requests + model_requests
         /\ ResetsBegun = 0 =>
              /\ total_requests = RecordsCompleted
              /\ Len(hit_events) = Min(RecordsCompleted, window_size)
    /\ \A t \in Threads :
         threads[t].summary # None =>
            LET summary == threads[t].summary[1]
            IN  summary.total_requests
                    = summary.coldstart_requests + summary.model_requests

\* Both threads have completed a record call with no reset, one of them after
\* waiting for the lock, and a summary taken while the other thread was
\* recording has been returned.
C12_Witness ==
    /\ ResetsBegun = 0
    /\ lock = None
    /\ \A t \in Threads : threads[t].recorded >= 1
    /\ \E t \in Threads :
         /\ threads[t].contended
         /\ threads[t].summary # None
         /\ threads[t].summary[1].total_requests >= 1
    /\ total_requests >= 2

\* The number of hits among the samples of the hit window.
HitsInWindow == Cardinality({i \in 1..Len(hit_events) : hit_events[i] = 1})

\* C13: the flag recorded is 1 exactly when a clicked item was given (not None,
\* not the empty string) and is one of the shown items, else 0; the hit rate a
\* summary reports is 100 * hits / samples of the hit window to the nearest
\* hundredth, 0 for an empty window, and 66.67 for two hits in three samples.
C13_HitFlagAndHitRate ==
    /\ last.op = "record_recommendation" =>
         LET hit == hits_recorded[Len(hits_recorded)]
             member == \E i \in 1..Len(last.out) : last.out[i] = last.item
         IN  /\ hit \in {0, 1}
             /\ hit = 1 <=> (last.item # "" /\ member)
    /\ last.op = "get_metrics_summary" =>
         LET rate == last.out[1].hit_rate_at_10
             n == Len(hit_events)
         IN  /\ n = 0 => rate = 0
             /\ n > 0 => /\ 2 * (rate * n - 10000 * HitsInWindow) <= n
                         /\ 2 * (10000 * HitsInWindow - rate * n) <= n
             /\ (n = 3 /\ HitsInWindow = 2) => rate = 6667

\* A summary taken when the hit window holds three samples, two of them hits:
\* it reports 66.67.
C13_Witness ==
    /\ last.op = "get_metrics_summary"
    /\ Len(hit_events) = 3
    /\ HitsInWindow = 2
    /\ last.out[1].hit_rate_at_10 = 6667

\* C14: the p50 and p99 a summary reports are nearest-rank percentiles of the
\* latency window, so each is one of the samples in the window, and both are
\* 0 when the window is empty.
C14_PercentilesAreWindowSamples ==
    last.op = "get_metrics_summary" =>
        LET summary == last.out[1]
            samples == {100 * latencies[i] : i \in 1..Len(latencies)}
        IN  /\ latencies = <<>> =>
                 summary.p50_latency_ms = 0 /\ summary.p99_latency_ms = 0
            /\ latencies # <<>> =>
                 /\ summary.p50_latency_ms \in samples
                 /\ summary.p99_latency_ms \in samples
                 /\ summary.p50_latency_ms = percentile_nearest_rank(latencies, 50)
                 /\ summary.p99_latency_ms = percentile_nearest_rank(latencies, 99)

\* C15: a get_metrics_summary call changes neither window nor any counter,
\* and a call that directly follows another returns the same result.
C15_SummaryIsReadOnly ==
    [][last'.op = "get_metrics_summary" =>
        /\ hit_events' = hit_events
        /\ latencies' = latencies
        /\ total_requests' = total_requests
        /\ coldstart_requests' = coldstart_requests
        /\ model_requests' = model_requests
        /\ last.op = "get_metrics_summary" => last'.out = last.out]_vars

\* A summary returned by a tracker whose windows and counters are not empty.
C15_Witness ==
    /\ last.op = "get_metrics_summary"
    /\ hit_events # <<>>
    /\ latencies # <<>>
    /\ coldstart_requests >= 1
    /\ model_requests >= 1
    /\ last.out[1].total_requests = total_requests
    /\ last.out[1].p99_latency_ms > 0

\* C16: no record and no summary lowers total_requests, coldstart_requests or
\* model_requests; a record call raises total_requests and one of the other
\* two by one however full the windows are; only reset lowers a counter.
C16_CountersNeverDecrease ==
    [][/\ last'.op # "reset" =>
            /\ total_requests' >= total_requests
            /\ coldstart_requests' >= coldstart_requests
            /\ model_requests' >= model_requests
       /\ Len(hits_recorded') = Len(hits_recorded) + 1 =>
            /\ total_requests' = total_requests + 1
            /\ coldstart_requests' + model_requests'
                    = coldstart_requests + model_requests + 1
       /\ (\/ total_requests' < total_requests
           \/ coldstart_requests' < coldstart_requests
           \/ model_requests' < model_requests) => last'.op = "reset"]_vars

\* More requests were counted than a window holds, on both strategies, and
\* the hit window is full.
C16_Witness ==
    /\ last.op = "record_recommendation"
    /\ total_requests > window_size
    /\ model_requests >= window_size
    /\ coldstart_requests >= 1
    /\ Len(hit_events) = window_size

\* C17: a record_feedback call records one sample with no latency and
\* used_coldstart = False: the hit window gets one more sample, the latency
\* window is unchanged, total_requests and model_requests grow by one and
\* coldstart_requests is unchanged, whatever strategy produced the shown items.
C17_FeedbackCountsAsModelRequest ==
    [][feedbacks' = feedbacks + 1 =>
        /\ Len(hits_recorded') = Len(hits_recorded) + 1
        /\ \E hit \in {0, 1} :
             hit_events' = LastN(Append(hit_events, hit), window_size)
        /\ latencies' = latencies
        /\ latencies_recorded' = latencies_recorded
        /\ total_requests' = total_requests + 1
        /\ model_requests' = model_requests + 1
        /\ coldstart_requests' = coldstart_requests]_vars

\* Feedback was given on the list a cold-start request has just returned: the
\* request is counted as cold-start, the feedback as model.
C17_Witness ==
    /\ last.op = "record_feedback"
    /\ req.pc = "return"
    /\ req.used_coldstart
    /\ req.recommendations = last.out
    /\ coldstart_requests = 1
    /\ model_requests = 1
    /\ total_requests = 2
    /\ Len(hit_events) = 2
    /\ Len(latencies) = 1

\* How many entries of s are x.
Occurrences(s, x) == Cardinality({i \in 1..Len(s) : s[i] = x})

\* C18: a record_feedback call gives every entry of recommended_items one
\* update: a success to the arm of an entry equal to clicked_item, a failure
\* to the arm of every other entry; arms of items not shown are unchanged and
\* no arm is added.
C18_FeedbackUpdatesEveryShownArm ==
    [][feedbacks' = feedbacks + 1 =>
        LET shown == last'.out
            is_clicked(i) == last'.flag /\ last'.item = i
        IN  /\ item_ids' = item_ids
            /\ DOMAIN alpha' = DOMAIN alpha
            /\ DOMAIN beta' = DOMAIN beta
            /\ \A i \in DOMAIN alpha :
                 /\ alpha'[i] = alpha[i]
                        + (IF is_clicked(i) THEN Occurrences(shown, i) ELSE 0)
                 /\ beta'[i] = beta[i]
                        + (IF is_clicked(i) THEN 0 ELSE Occurrences(shown, i))]_vars

\* Feedback on two shown items of a three-item bandit, one of them clicked:
\* a success, a failure and an untouched arm.
C18_Witness ==
    /\ last.op = "record_feedback"
    /\ last.out = <<"a", "b">>
    /\ last.flag /\ last.item = "b"
    /\ Len(item_ids) = 3
    /\ alpha["a"] = 1 /\ beta["a"] = 2
    /\ alpha["b"] = 2 /\ beta["b"] = 1
    /\ alpha["c"] = 1 /\ beta["c"] = 1

\* ------------------------------------ the model's result and its supplement

\* The identifiers a catalog is filled from.
CatalogItems == {"a", "b", "c", "d"}

\* Any catalog of at most MaxCatalog add_items entries, and a bandit over its
\* item ids as startup_event builds it.
InitSupplement ==
    /\ \E ids \in SeqsUpTo(CatalogItems, MaxCatalog) :
         LET cat == add_items(EmptyCatalog, ids)
         IN  /\ items = cat.items
             /\ item_to_idx = cat.item_to_idx
             /\ idx_to_item = cat.idx_to_item
             /\ item_data = [i \in Range(cat.items) |-> "Product"]
             /\ BanditInit(cat.items)
    /\ threshold = cold_start_threshold
    /\ MetricsInit
    /\ redis = <<>>
    /\ req = IdleReq
    /\ feedbacks = 0
    /\ returns = 0
    /\ last = NoCall
    /\ calls = NoCalls

\* _get_model_recommendations from the scorer's output on: top_items is any
\* list of top_k distinct indices, those beyond the catalog included.
SupplementCall(top_items, coldstart_recs) ==
    /\ LET recommendations == KnownItems(top_items)
           result == IF Len(recommendations) < top_k
                     THEN supplement(recommendations, coldstart_recs)
                     ELSE recommendations
       IN  req' = [IdleReq EXCEPT !.recommendations = Take(result, top_k)]
    /\ last' = Call("_get_model_recommendations", "", 0, FALSE, top_items)
    /\ UNCHANGED <<banditVars, metricsVars, catalogVars, redis, feedbacks, returns, calls>>

NextSupplement ==
    \E coldstart_recs \in Selections(item_ids, top_k),
       top_items \in {t \in [1..top_k -> 0..MaxCatalog] : NoDuplicates(t)} :
        SupplementCall(top_items, coldstart_recs)

SpecSupplement == InitSupplement /\ [][NextSupplement]_vars

\* The places of the scorer's output that hold the index of a catalog item.
ValidPlaces == {i \in 1..Len(last.out) : last.out[i] \in DOMAIN idx_to_item}

\* C19: when fewer than top_k of the scorer's indices are valid, the result
\* keeps the valid identifiers, adds cold-start items without repeating any,
\* has exactly top_k identifiers if the bandit has at least top_k items, and
\* otherwise holds every item of the bandit.
C19_SupplementFillsToTopK ==
    (last.op = "_get_model_recommendations" /\ Cardinality(ValidPlaces) < top_k) =>
        LET result == req.recommendations
            pool == Range(item_ids)
        IN  /\ \A i \in ValidPlaces : idx_to_item[last.out[i]] \in Range(result)
            /\ NoDuplicates(result)
            /\ Range(result) \subseteq pool \cup {idx_to_item[last.out[i]] : i \in ValidPlaces}
            /\ Cardinality(pool) >= top_k => Len(result) = top_k
            /\ Cardinality(pool) < top_k => pool \subseteq Range(result)

\* One valid identifier came from the scorer and the bandit, which has more
\* than top_k items, supplied the rest of a top_k-long result.
C19_Witness ==
    /\ last.op = "_get_model_recommendations"
    /\ Cardinality(ValidPlaces) = 1
    /\ Cardinality(Range(item_ids)) > top_k
    /\ Len(req.recommendations) = top_k
    /\ req.recommendations[1] = idx_to_item[last.out[CHOOSE i \in ValidPlaces : TRUE]]

\* C20: a request whose model result was supplemented with cold-start items
\* returns used_coldstart = false and is counted in model_requests, not in
\* coldstart_requests.
C20_SupplementKeepsModelStrategy ==
    /\ []((HasResult /\ req.path = "supplemented") => ~req.used_coldstart)
    /\ [][(req.pc = "record" /\ req.path = "supplemented" /\ req'.pc = "return") =>
            /\ model_requests' = model_requests + 1
            /\ coldstart_requests' = coldstart_requests
            /\ ~req'.used_coldstart]_vars

\* A supplemented request has returned: the scorer gave one valid identifier,
\* the bandit the other, and the request is counted as a model request.
C20_Witness ==
    /\ req.pc = "return"
    /\ req.path = "supplemented"
    /\ ~req.used_coldstart
    /\ Len(req.recommendations) = top_k
    /\ model_requests = 1
    /\ coldstart_requests = 0
    /\ total_requests = 1

\* C21: a get_recommendations call returns only after recording one sample:
\* a hit flag of 0, the measured latency appended to the latency window, and a
\* count under the used_coldstart flag it returns; no other step of the call
\* records anything.
C21_RequestRecordsOneSample ==
    [][/\ (req.pc = "record" /\ req'.pc = "return") =>
            /\ hits_recorded' = Append(hits_recorded, 0)
            /\ req'.latency_ms # None
            /\ latencies_recorded' = Append(latencies_recorded, req'.latency_ms[1])
            /\ latencies' = LastN(Append(latencies, req'.latency_ms[1]), window_size)
            /\ total_requests' = total_requests + 1
            /\ req'.used_coldstart = req.used_coldstart
            /\ req'.recommendations = req.recommendations
            /\ IF req'.used_coldstart
               THEN /\ coldstart_requests' = coldstart_requests + 1
                    /\ model_requests' = model_requests
               ELSE /\ coldstart_requests' = coldstart_requests
                    /\ model_requests' = model_requests + 1
       /\ (req.pc # "return" /\ req'.pc = "return") => req.pc = "record"
       /\ (~(req.pc = "record" /\ req'.pc = "return") /\ feedbacks' = feedbacks) =>
            /\ hits_recorded' = hits_recorded
            /\ latencies_recorded' = latencies_recorded
            /\ total_requests' = total_requests]_vars

\* A model request has returned after recording its one sample: no hit, its
\* latency, and a count in model_requests.
C21_Witness ==
    /\ req.pc = "return"
    /\ req.path = "model"
    /\ ~req.used_coldstart
    /\ hit_events = <<0>>
    /\ req.latency_ms = Some(100)
    /\ latencies = <<100>>
    /\ total_requests = 1
    /\ model_requests = 1

\* ------------------------------------------ the bandit under concurrent callers

\* The bandit has no lock: threads that call update and select_items run
\* their reads and writes of alpha and beta in any order.

\* The tracker is not called by the threads that share the bandit.
BanditThreadFrame ==
    /\ SetTracker(Tracker)
    /\ UNCHANGED <<lock, item_ids, threshold, file, serviceVars, last>>

\* A thread calls update(item_id, reward).
BeginUpdate(t, item_id, reward) ==
    /\ threads[t].pc = "idle"
    /\ TotalCalls < MaxUpdates
    /\ threads' = [threads EXCEPT ![t] =
            [@ EXCEPT !.pc = "member", !.op = "update",
                      !.args = <<item_id, reward>>, !.tmp = 0, !.acc = <<>>,
                      !.summary = None]]
    /\ calls' = [calls EXCEPT ![item_id][reward] = @ + 1]
    /\ UNCHANGED <<alpha, beta, held>>
    /\ BanditThreadFrame

\* One step of update: the membership test, the read of the counter, or the
\* write of the counter plus one.
UpdateStep(t) ==
    LET th == threads[t]
        item_id == th.args[1]
        reward == th.args[2]
    IN  /\ th.op = "update"
        /\ \/ /\ th.pc = "member"
              /\ Goto(t, IF item_id \in Range(item_ids) THEN "load" ELSE "idle", 0)
              /\ UNCHANGED <<alpha, beta, held>>
           \/ /\ th.pc = "load"
              /\ Goto(t, "store", IF reward > 0 THEN alpha[item_id] ELSE beta[item_id])
              /\ UNCHANGED <<alpha, beta, held>>
           \/ /\ th.pc = "store"
              /\ alpha' = IF reward > 0
                          THEN update_alpha(item_ids, [alpha EXCEPT ![item_id] = th.tmp],
                                            item_id, reward)
                          ELSE alpha
              /\ beta' = IF reward > 0
                         THEN beta
                         ELSE update_beta(item_ids, [beta EXCEPT ![item_id] = th.tmp],
                                          item_id, reward)
              /\ held' = [held EXCEPT ![item_id] =
                            @ \cup {<<alpha'[item_id], beta'[item_id]>>}]
              /\ Goto(t, "idle", 0)
        /\ UNCHANGED calls
        /\ BanditThreadFrame

\* A thread calls select_items(k).
BeginSelect(t, k) ==
    /\ threads[t].pc = "idle"
    /\ threads' = [threads EXCEPT ![t] =
            [@ EXCEPT !.pc = IF item_ids = <<>> THEN "sort" ELSE "read_alpha",
                      !.op = "select_items", !.args = <<k>>, !.tmp = 1,
                      !.acc = <<>>, !.summary = None]]
    /\ UNCHANGED <<alpha, beta, held, calls>>
    /\ BanditThreadFrame

\* One step of select_items: the read of self.alpha[item_id] or of
\* self.beta[item_id] for the next item of the comprehension, or the draw and
\* the sort once every item is read.
SelectStep(t) ==
    LET th == threads[t]
        item_id == item_ids[th.tmp]
    IN  /\ th.op = "select_items"
        /\ \/ /\ th.pc = "read_alpha"
              /\ threads' = [threads EXCEPT ![t] =
                    [@ EXCEPT !.pc = "read_beta",
                              !.acc = Append(@, [item |-> item_id,
                                                 alpha |-> alpha[item_id],
                                                 beta |-> 0, read |-> FALSE])]]
           \/ /\ th.pc = "read_beta"
              /\ threads' = [threads EXCEPT ![t] =
                    [@ EXCEPT !.pc = IF th.tmp >= Len(item_ids)
                                     THEN "sort" ELSE "read_alpha",
                              !.tmp = @ + 1,
                              !.acc = [@ EXCEPT ![Len(@)] =
                                        [@ EXCEPT !.beta = beta[item_id],
                                                  !.read = TRUE]]]]
           \/ /\ th.pc = "sort"
              /\ \E samples \in SampleSets(item_ids) :
                    threads' = [threads EXCEPT ![t] =
                        [@ EXCEPT !.pc = "idle",
                                  !.summary =
                                    Some(select_items(item_ids, samples, th.args[1]))]]
        /\ UNCHANGED <<alpha, beta, held, calls>>
        /\ BanditThreadFrame

\* A bandit over two items, shared by the threads.
InitBanditConcurrent ==
    /\ BanditInit(<<"a", "b">>)
    /\ threshold = cold_start_threshold
    /\ MetricsInit
    /\ ServiceUnused
    /\ last = Call("__init__", "", 0, FALSE, <<>>)
    /\ calls = NoCalls

NextBanditConcurrent ==
    \E t \in Threads :
        \/ \E item_id \in ItemUniverse, reward \in {0, 1} : BeginUpdate(t, item_id, reward)
        \/ UpdateStep(t)
        \/ BeginSelect(t, 1)
        \/ SelectStep(t)

SpecBanditConcurrent == InitBanditConcurrent /\ [][NextBanditConcurrent]_vars

\* The update calls made on items the bandit holds.
KnownUpdateCalls ==
    SumOver([i \in Range(item_ids) |-> SumOver(calls[i], Rewards)], Range(item_ids))

\* C22: once every concurrent update call has completed, the successes and
\* failures of all arms together have grown by the number of calls made on
\* known items: no increment is lost.
C22_NoUpdateIsLost ==
    (\A t \in Threads : threads[t].pc = "idle") =>
        SumOver([i \in Range(item_ids) |-> alpha[i] + beta[i] - 2], Range(item_ids))
            = KnownUpdateCalls

\* C23: every (alpha, beta) pair a select_items call has read for an item is
\* a pair that item held at some instant.
C23_SelectReadsConsistentPairs ==
    \A t \in Threads :
        threads[t].op = "select_items" =>
            \A n \in 1..Len(threads[t].acc) :
                LET seen == threads[t].acc[n]
                IN  seen.read => <<seen.alpha, seen.beta>> \in held[seen.item]

\* ------------------------------------------------- save_state and load_state

\* json.dump of a dict: its entries as (key, value) pairs, in the order of the
\* dict, which for alpha and beta is the order the constructor inserted them.
json_object(keys, d) == [n \in 1..Len(keys) |-> <<keys[n], d[keys[n]]>>]

\* json.load of an object: a dict with the keys of the pairs; of two pairs
\* with the same key the later one wins.
json_dict(pairs) ==
    [key \in {pairs[n][1] : n \in 1..Len(pairs)} |->
        LET at == {n \in 1..Len(pairs) : pairs[n][1] = key}
            n == CHOOSE m \in at : \A o \in at : o <= m
        IN  pairs[n][2]]

\* The text save_state writes.
json_dump_state(ids, al, be) ==
    <<<<"item_ids", ids>>,
      <<"alpha", json_object(DictKeys(ids), al)>>,
      <<"beta", json_object(DictKeys(ids), be)>>>>

\* state = json.load(f): the three members, the objects read back as dicts.
json_load_state(text) ==
    LET state == json_dict(text)
    IN  [item_ids |-> state["item_ids"],
         alpha |-> json_dict(state["alpha"]),
         beta |-> json_dict(state["beta"])]

\* load_state that keeps the failures the constructor set.
loaded_beta_fresh(state) == [i \in Range(state.item_ids) |-> 1]
\* bandit.beta = state["beta"]
loaded_beta(state) == state.beta

\* bandit.save_state(filepath)
SaveState ==
    /\ file' = Some(json_dump_state(item_ids, alpha, beta))
    /\ last' = Call("save_state", "", 0, FALSE, <<item_ids, alpha, beta>>)
    /\ UNCHANGED <<item_ids, alpha, beta, held, threshold, metricsVars, serviceVars, calls>>

\* bandit = ThompsonSamplingBandit.load_state(filepath): the bandit the
\* program goes on with is the loaded one. With no file, open raises.
LoadState ==
    IF file = None
    THEN /\ last' = [Call("load_state", "", 0, FALSE, <<>>) EXCEPT
                        !.raised = "FileNotFoundError"]
         /\ UNCHANGED <<banditVars, metricsVars, serviceVars, calls>>
    ELSE LET state == json_load_state(file[1])
         IN  /\ item_ids' = state.item_ids
             /\ alpha' = state.alpha
             /\ beta' = loaded_beta(state)
             /\ held' = [i \in Range(state.item_ids) |-> {<<1, 1>>}]
             /\ last' = Call("load_state", "", 0, FALSE, <<>>)
             /\ UNCHANGED <<file, threshold, metricsVars, serviceVars, calls>>

NextPersist ==
    \/ \E i \in ItemUniverse \cup {UnknownItem}, r \in {0, 1} : Update(i, r)
    \/ SaveState
    \/ LoadState
    \/ \E k \in 1..MaxK : SelectItems(k)
    \/ GetStatistics

SpecPersist == InitBandit /\ [][NextPersist]_vars

\* C24: a load_state that follows a save_state gives a bandit with the
\* item_ids, alpha and beta the saved bandit had, whatever updates came
\* before; its statistics and its selections for every draw are those of the
\* saved bandit, and so is the effect of an update on it.
C24_SaveLoadRestoresState ==
    [][(last.op = "save_state" /\ last'.op = "load_state") =>
          /\ last'.raised = ""
          /\ <<item_ids', alpha', beta'>> = last.out
          /\ <<item_ids', alpha', beta'>> = <<item_ids, alpha, beta>>
          /\ get_statistics(item_ids', alpha', beta') = get_statistics(item_ids, alpha, beta)
          /\ \A k \in 1..MaxK : \A samples \in SampleSets(item_ids) :
                select_items(item_ids', samples, k) = select_items(item_ids, samples, k)
          /\ \A i \in ItemUniverse \cup {UnknownItem}, r \in {0, 1} :
                /\ update_alpha(item_ids', alpha', i, r) = update_alpha(item_ids, alpha, i, r)
                /\ update_beta(item_ids', beta', i, r) = update_beta(item_ids, beta, i, r)]_vars

\* A bandit loaded from the file after a success on "a" and a failure on "b".
C24_Witness ==
    /\ last.op = "load_state"
    /\ last.raised = ""
    /\ item_ids = <<"a", "b">>
    /\ alpha = [a |-> 2, b |-> 1]
    /\ beta = [a |-> 1, b |-> 2]
    /\ file = Some(<<<<"item_ids", <<"a", "b">>>>,
                     <<"alpha", <<<<"a", 2>>, <<"b", 1>>>>>>,
                     <<"beta", <<<<"a", 1>>, <<"b", 2>>>>>>>>)

\* C25: right after reset both windows are empty and the three counters are
\* 0, and a summary taken right after a reset reports 0 for the hit rate,
\* for the three latency statistics, for the three counters and for the
\* cold-start percentage.
C25_ResetClearsEverything ==
    [][/\ last'.op = "reset" =>
            /\ hit_events' = <<>>
            /\ latencies' = <<>>
            /\ total_requests' = 0
            /\ coldstart_requests' = 0
            /\ model_requests' = 0
       /\ (last.op = "reset" /\ last'.op = "get_metrics_summary") =>
            last'.out = <<[hit_rate_at_10 |-> 0, p99_latency_ms |-> 0,
                           p50_latency_ms |-> 0, avg_latency_ms |-> 0,
                           total_requests |-> 0, coldstart_requests |-> 0,
                           model_requests |-> 0, coldstart_percentage |-> 0]>>]_vars

\* A reset of a tracker that had counted more requests than a window holds.
C25_Witness ==
    /\ last.op = "reset"
    /\ last.num > window_size
    /\ hit_events = <<>>
    /\ latencies = <<>>
    /\ total_requests = 0

\* ------------------------------------------------- the catalog called directly

\* ItemCatalog(): an empty catalog; no other component is built.
InitCatalog ==
    /\ BanditInit(<<>>)
    /\ threshold = cold_start_threshold
    /\ MetricsInit
    /\ ServiceUnused
    /\ last = Call("__init__", "", 0, FALSE, <<>>)
    /\ calls = NoCalls

\* The metadata an item dict carries beside its id.
ItemNames == {"Product", "Renamed"}

\* self.items[item_id] = item, for every item of the list.
put_items(data, new, name) ==
    [i \in DOMAIN data \cup Range(new) |-> IF i \in Range(new) THEN name ELSE data[i]]

\* catalog.add_items(new), the dicts of the list carrying the ids of new and
\* the metadata name.
AddItems(new, name) ==
    LET cat == add_items([items |-> items, item_to_idx |-> item_to_idx,
                          idx_to_item |-> idx_to_item], new)
    IN  /\ items' = cat.items
        /\ item_to_idx' = cat.item_to_idx
        /\ idx_to_item' = cat.idx_to_item
        /\ item_data' = put_items(item_data, new, name)
        /\ last' = Call("add_items", name, Len(new), FALSE, new)
        /\ UNCHANGED <<banditVars, metricsVars, redis, req, feedbacks, returns, calls>>

\* catalog.get_item_index(item_id)
GetItemIndex(item_id) ==
    /\ last' = Call("get_item_index", item_id, get_item_index(item_id), FALSE, <<>>)
    /\ UNCHANGED <<banditVars, metricsVars, serviceVars, calls>>

\* catalog.get_item_id(idx)
GetItemId(idx) ==
    /\ last' = Call("get_item_id", get_item_id(idx), idx, FALSE, <<>>)
    /\ UNCHANGED <<banditVars, metricsVars, serviceVars, calls>>

\* The indices a caller asks for: 0, those of a full catalog, and beyond.
AskedIndices == 0..(Cardinality(CatalogItems) + 1)

\* The lists add_items is called with: up to MaxItems ids, the empty list
\* included; an id comes again in a later call.
AddedLists == {new \in SeqsUpTo(CatalogItems, MaxItems) : NoDuplicates(new)}

NextCatalog ==
    \/ \E new \in AddedLists, name \in ItemNames : AddItems(new, name)
    \/ \E item_id \in CatalogItems \cup {UnknownItem} : GetItemIndex(item_id)
    \/ \E idx \in AskedIndices : GetItemId(idx)

SpecCatalog == InitCatalog /\ [][NextCatalog]_vars

\* C26: every added item has an index above 0, two added items have
\* different indices, the index of an added item maps back to the item, an
\* item that was never added has index 0, and an index that no item has,
\* 0 included, maps to "unknown"; the two lookups return just that.
C26_IndexZeroIsReserved ==
    /\ \A x \in Range(items) :
          /\ get_item_index(x) > 0
          /\ get_item_id(get_item_index(x)) = x
          /\ \A y \in Range(items) : x # y => get_item_index(x) # get_item_index(y)
    /\ \A x \in (CatalogItems \cup {UnknownItem}) \ Range(items) : get_item_index(x) = 0
    /\ \A idx \in AskedIndices :
          (\A x \in Range(items) : get_item_index(x) # idx) => get_item_id(idx) = "unknown"
    /\ get_item_id(0) = "unknown"
    /\ last.op = "get_item_index" =>
          last.num = (IF last.item \in Range(items) THEN item_to_idx[last.item] ELSE 0)
    /\ (last.op = "get_item_id" /\ last.item # "unknown") =>
          (last.item \in Range(items) /\ item_to_idx[last.item] = last.num)

\* The catalog after add_items of "b", "a" and "b" again, asked for the index
\* of an item it does not hold.
C26_Witness ==
    /\ items = <<"b", "a">>
    /\ last.op = "get_item_index"
    /\ last.item = "c"
    /\ last.num = 0
    /\ get_item_index("b") = 1
    /\ get_item_id(2) = "a"
    /\ get_item_id(3) = "unknown"

\* C27: a session with no key in Redis (never written, expired or deleted)
\* reads as length 0 and as the empty sequence, and a get_recommendations
\* call on it that Redis answers takes the cold-start route with session
\* length 0.
C27_MissingSessionIsCold ==
    [][\A session_id \in SessionIds :
          session_key(session_id) \notin DOMAIN redis =>
             /\ get_session(session_id) = None
             /\ get_session_length(session_id) = 0
             /\ get_item_sequence(session_id, sequence_length) = <<>>
             /\ (req.pc = "idle" /\ req'.pc # "idle" /\ req'.session_id = session_id
                   /\ req'.pc # "raised") =>
                    /\ req'.session_length = 0
                    /\ req'.path = "coldstart"
                    /\ req'.used_coldstart
                    /\ req'.pc = "record"]_vars

\* A request routed to cold start on a session that an earlier request found
\* warm and that is gone since.
C27_Witness ==
    /\ redis = <<>>
    /\ req.pc = "record"
    /\ req.path = "coldstart"
    /\ req.session_length = 0
    /\ model_requests = 1
    /\ feedbacks = 0

\* ------------------------------------- the session store under concurrent callers

\* add_click is a GET of the key, an append to the list read, and a SETEX of
\* the result; no transaction joins the read to the write, and the threads
\* that call it for one session take these steps in any order.

\* The items of the clicks of a stored list.
ItemsOf(session_data) == [n \in 1..Len(session_data) |-> session_data[n].item_id]

\* What the key of a session holds, as a list of items.
StoredItems(session_id) ==
    IF get_session(session_id) = None THEN <<>> ELSE ItemsOf(get_session(session_id)[1])

SessionThreadFrame ==
    /\ SetTracker(Tracker)
    /\ UNCHANGED <<lock, banditVars, catalogVars, req, feedbacks, returns, calls>>

\* The add_click calls begun so far.
ClicksBegun == SumOver([t \in Threads |-> threads[t].begun], Threads)

\* A thread calls add_click(session_id, item_id).
BeginAddClick(t, session_id, item_id) ==
    /\ threads[t].pc = "idle"
    /\ ClicksBegun < MaxClicks
    /\ threads' = [threads EXCEPT ![t] =
            [@ EXCEPT !.pc = "get", !.op = "add_click",
                      !.args = <<session_id, item_id>>, !.acc = <<>>,
                      !.begun = @ + 1]]
    /\ UNCHANGED <<redis, last>>
    /\ SessionThreadFrame

\* session_data = self.get_session(session_id) or []
AddClickGet(t) ==
    LET th == threads[t]
        session_data == get_session(th.args[1])
    IN  /\ th.op = "add_click"
        /\ th.pc = "get"
        /\ threads' = [threads EXCEPT ![t] =
                [@ EXCEPT !.pc = "setex",
                          !.acc = IF session_data = None \/ session_data[1] = <<>>
                                  THEN <<>> ELSE session_data[1]]]
        /\ UNCHANGED <<redis, last>>
        /\ SessionThreadFrame

\* session_data.append(click_data); redis_client.setex(key, expiry, dumps);
\* the call is complete.
AddClickSetex(t) ==
    LET th == threads[t]
        key == session_key(th.args[1])
        new == json_dumps(Append(th.acc, [item_id |-> th.args[2]]))
    IN  /\ th.op = "add_click"
        /\ th.pc = "setex"
        /\ redis' = setex(key, expiry_seconds, new)
        /\ threads' = [threads EXCEPT ![t] =
                [@ EXCEPT !.pc = "idle", !.acc = <<>>, !.recorded = @ + 1]]
        /\ last' = Call("add_click", th.args[2], 0, FALSE, Append(last.out, th.args[2]))
        /\ SessionThreadFrame

\* A session store with no key, and no other component in use. last.out
\* lists the items of the completed add_click calls.
InitSession ==
    /\ BanditInit(<<>>)
    /\ threshold = cold_start_threshold
    /\ MetricsInit
    /\ ServiceUnused
    /\ last = Call("__init__", "", 0, FALSE, <<>>)
    /\ calls = NoCalls

NextSessionConcurrent ==
    \E t \in Threads :
        \/ \E session_id \in SessionIds, item_id \in ItemUniverse :
              BeginAddClick(t, session_id, item_id)
        \/ AddClickGet(t)
        \/ AddClickSetex(t)

SpecSessionConcurrent == InitSession /\ [][NextSessionConcurrent]_vars

\* C28: with add_click calls on one session interleaved and no expiry or
\* delete, the stored list is the items of the completed calls in the order
\* they completed, and no step makes the session shorter.
C28_ClicksAreAppendOnly ==
    [][\A session_id \in SessionIds :
          /\ StoredItems(session_id)' = last'.out
          /\ get_session_length(session_id)' >= get_session_length(session_id)]_vars

\* ------------------------------------------- the session store called directly

\* The items a session's clicks name: two items of the catalog and one the
\* catalog does not hold.
SessionItems == {"a", "b", UnknownItem}

\* A session store with no key beside a catalog of the items "a" and "b".
InitSessionStore ==
    /\ LET cat == create_sample_catalog(2)
       IN  /\ items = cat.items
           /\ item_to_idx = cat.item_to_idx
           /\ idx_to_item = cat.idx_to_item
           /\ item_data = [i \in Range(cat.items) |-> "Product"]
    /\ BanditInit(<<>>)
    /\ threshold = cold_start_threshold
    /\ MetricsInit
    /\ redis = <<>>
    /\ req = IdleReq
    /\ feedbacks = 0
    /\ returns = 0
    /\ last = Call("__init__", "", 0, FALSE, <<>>)
    /\ calls = NoCalls

\* session_store.add_click(session_id, item_id), with no other caller.
AddClick(session_id, item_id) ==
    /\ get_session_length(session_id) < MaxClicks
    /\ add_click(session_id, item_id)
    /\ last' = Call("add_click", item_id, 0, FALSE, <<>>)
    /\ UNCHANGED <<banditVars, metricsVars, catalogVars, req, feedbacks, returns, calls>>

\* session_store.get_item_sequence(session_id, max_length)
GetItemSequence(session_id, max_length) ==
    /\ last' = Call("get_item_sequence", session_id, max_length, FALSE,
                    get_item_sequence(session_id, max_length))
    /\ UNCHANGED <<banditVars, metricsVars, serviceVars, calls>>

\* session_store.get_session_length(session_id)
GetSessionLength(session_id) ==
    /\ last' = Call("get_session_length", session_id,
                    get_session_length(session_id), FALSE, <<>>)
    /\ UNCHANGED <<banditVars, metricsVars, serviceVars, calls>>

\* session_store.delete_session(session_id), or the expiry of the key.
DropSession(session_id) ==
    /\ delete_key(session_id)
    /\ last' = Call("delete_session", session_id, 0, FALSE, <<>>)
    /\ UNCHANGED <<banditVars, metricsVars, catalogVars, req, feedbacks, returns, calls>>

\* _get_model_recommendations up to the tensor: the sequence is read and, if
\* not empty, converted to indices and padded or cut. flag tells whether a
\* sequence went to the scorer.
ModelSequence(session_id) ==
    LET ids == get_item_sequence(session_id, sequence_length)
    IN  /\ last' = Call("_get_model_recommendations", session_id, 0, ids # <<>>,
                        IF ids = <<>> THEN <<>> ELSE PadSequence(ids))
        /\ UNCHANGED <<banditVars, metricsVars, serviceVars, calls>>

NextSessionStore ==
    \E session_id \in SessionIds :
        \/ \E item_id \in SessionItems : AddClick(session_id, item_id)
        \/ \E max_length \in 1..MaxClicks : GetItemSequence(session_id, max_length)
        \/ GetSessionLength(session_id)
        \/ DropSession(session_id)
        \/ ModelSequence(session_id)

SpecSessionStore == InitSessionStore /\ [][NextSessionStore]_vars

C30_ScorerSequenceIsPadded ==
    (last.op = "_get_model_recommendations" /\ last.flag) =>
        LET clicks == StoredItems(last.item)
            out == last.out
        IN  /\ Len(out) = sequence_length
            /\ \A j \in 1..sequence_length :
                  out[sequence_length + 1 - j] =
                     IF j > Len(clicks) THEN 0
                     ELSE IF clicks[Len(clicks) + 1 - j] \in DOMAIN item_to_idx
                          THEN item_to_idx[clicks[Len(clicks) + 1 - j]]
                          ELSE 0

\* A history of one click on "b" padded on the left.
C30_Witness ==
    /\ last.op = "_get_model_recommendations"
    /\ last.flag
    /\ StoredItems("s1") = <<"b">>
    /\ sequence_length >= 2
    /\ last.out = Zeros(sequence_length - 1) \o <<2>>

\* C31: every get_recommendations call, whichever way it ends (a return from
\* the cold-start route, the model route or the empty-sequence fallback, or
\* an exception from the session read or the scorer), has recorded its
\* elapsed time in the tracker by the time it ends.
C31_LatencyRecordedOnEveryExit ==
    [][(req.pc # "idle" /\ req'.pc = "idle") =>
          /\ req.latency_ms # None
          /\ latencies_recorded # <<>>
          /\ latencies_recorded[Len(latencies_recorded)] = req.latency_ms[1]]_vars

\* ------------------------------------- the bandit with its handler, every method

\* The bandit's own methods and those of the handler that wraps it.
NextArms ==
    \/ NextBandit
    \/ \E n \in 0..MaxSessionLength : ShouldUseColdstart(n)
    \/ \E k \in 1..MaxK : HandlerGetRecommendations(k)
    \/ \E i \in ItemUniverse \cup {UnknownItem}, c \in BOOLEAN : UpdateFeedback(i, c)

SpecArms == InitBandit /\ [][NextArms]_vars

\* C32: the arms are those of the item list and stay so; every arm has
\* alpha >= 1 and beta >= 1 and neither decreases; select_items,
\* get_statistics, should_use_coldstart and the handler's selection leave
\* alpha and beta as they are, and a step that changes them is an update.
C32_ArmsChangeOnlyByUpdate ==
    [][/\ item_ids' = item_ids
       /\ DOMAIN alpha = Range(item_ids) /\ DOMAIN beta = Range(item_ids)
       /\ DOMAIN alpha' = DOMAIN alpha /\ DOMAIN beta' = DOMAIN beta
       /\ \A i \in Range(item_ids) :
             /\ alpha[i] >= 1 /\ beta[i] >= 1
             /\ alpha'[i] >= alpha[i] /\ beta'[i] >= beta[i]
       /\ last'.op \in {"select_items", "get_statistics", "should_use_coldstart",
                         "get_recommendations"} =>
             (alpha' = alpha /\ beta' = beta)
       /\ (alpha' # alpha \/ beta' # beta) =>
             last'.op \in {"update", "update_feedback"}]_vars

\* Statistics read from a bandit whose arm "a" has one success and one failure.
C32_Witness ==
    /\ last.op = "get_statistics"
    /\ item_ids = <<"a", "b">>
    /\ alpha = [a |-> 2, b |-> 1]
    /\ beta = [a |-> 2, b |-> 1]

\* --------------------------------------------------- record_feedback repeated

\* A service over the sample catalog of two items, as startup_event builds it.
InitFeedback ==
    /\ LET cat == create_sample_catalog(2)
       IN  /\ items = cat.items
           /\ item_to_idx = cat.item_to_idx
           /\ idx_to_item = cat.idx_to_item
           /\ item_data = [i \in Range(cat.items) |-> "Product"]
           /\ BanditInit(cat.items)
    /\ threshold = cold_start_threshold
    /\ MetricsInit
    /\ redis = <<>>
    /\ req = IdleReq
    /\ feedbacks = 0
    /\ returns = 0
    /\ last = NoCall
    /\ calls = NoCalls

\* The shown lists a client reports: one or two items, one list with an item
\* the catalog does not hold.
RepeatedLists == {<<"a">>, <<"a", "b">>, <<"b", UnknownItem>>}

\* record_feedback, called as often as a client retries.
FeedbackCall(session_id, recommended_items, clicked_item) ==
    /\ feedbacks < MaxRequests
    /\ record_feedback(recommended_items, clicked_item)

NextFeedback ==
    \E sid \in SessionIds, shown \in RepeatedLists,
       clicked \in {None, Some("a"), Some("b")} :
        FeedbackCall(sid, shown, clicked)

SpecFeedback == InitFeedback /\ [][NextFeedback]_vars

\* C33: when the k record_feedback calls made so far all had the same shown
\* items and the same clicked item, every known item of the list has had k
\* updates per place it holds in the list (successes if it is the clicked
\* item, failures otherwise), k hit samples of the same value are recorded
\* and total_requests is k.
C33_FeedbackIsNotIdempotent ==
    (last.op = "record_feedback" /\ last.num = feedbacks) =>
        LET k == feedbacks
            shown == last.out
            is_clicked(i) == last.flag /\ last.item = i
        IN  /\ \A i \in Range(item_ids) :
                  /\ alpha[i] + beta[i] - 2 = k * Occurrences(shown, i)
                  /\ alpha[i] = 1 + (IF is_clicked(i) THEN k * Occurrences(shown, i) ELSE 0)
            /\ total_requests = k
            /\ model_requests = k
            /\ Len(hits_recorded) = k
            /\ \A n \in 1..k :
                  hits_recorded[n] =
                     (IF last.flag /\ last.item \in Range(shown) THEN 1 ELSE 0)

\* The same feedback three times: "a" and "b" shown, "b" clicked.
C33_Witness ==
    /\ last.op = "record_feedback"
    /\ last.num = 3
    /\ feedbacks = 3
    /\ last.out = <<"a", "b">>
    /\ last.flag /\ last.item = "b"
    /\ alpha = [a |-> 1, b |-> 4]
    /\ beta = [a |-> 4, b |-> 1]
    /\ total_requests = 3
    /\ hits_recorded = <<1, 1, 1>>

\* C34: the summary's coldstart_percentage (in hundredths) is 0 when
\* total_requests is 0 and otherwise the hundredth nearest to
\* 100 * coldstart_requests / total_requests; it lies between 0 and 100.
C34_ColdstartPercentage ==
    LET pct == get_metrics_summary.coldstart_percentage
    IN  /\ total_requests = 0 => pct = 0
        /\ total_requests > 0 =>
              /\ 2 * (pct * total_requests - 10000 * coldstart_requests) <= total_requests
              /\ 2 * (10000 * coldstart_requests - pct * total_requests) <= total_requests
        /\ pct >= 0 /\ pct <= 10000
        /\ last.op = "get_metrics_summary" => last.out[1].coldstart_percentage = pct

\* A summary after two cold-start requests out of three: 66.67.
C34_Witness ==
    /\ last.op = "get_metrics_summary"
    /\ coldstart_requests = 2
    /\ total_requests = 3
    /\ last.out[1].coldstart_percentage = 6667

\* C35: the latency window is never longer than the hit window and neither
\* is longer than window_size; a record_recommendation call appends one hit
\* sample and one latency sample or none, and reset leaves both windows
\* empty.
C35_LatencyWindowWithinHitWindow ==
    [][/\ Len(latencies') <= Len(hit_events')
       /\ Len(hit_events') <= window_size
       /\ last'.op = "record_recommendation" =>
             /\ Len(hits_recorded') = Len(hits_recorded) + 1
             /\ hit_events' = LastN(Append(hit_events, hits_recorded'[Len(hits_recorded')]),
                                    window_size)
             /\ \/ latencies' = latencies /\ latencies_recorded' = latencies_recorded
                \/ /\ Len(latencies_recorded') = Len(latencies_recorded) + 1
                   /\ latencies' =
                        LastN(Append(latencies,
                                     latencies_recorded'[Len(latencies_recorded')]),
                              window_size)
       /\ last'.op = "reset" => (hit_events' = <<>> /\ latencies' = <<>>)]_vars

\* A full hit window over a latency window of one sample, after more records
\* than the window holds, the last one without latency.
C35_Witness ==
    /\ last.op = "record_recommendation"
    /\ last.num = -1
    /\ Len(hit_events) = window_size
    /\ Len(latencies) = 1
    /\ total_requests > window_size

\* C36: whenever no get_recommendations call stands between its record and
\* its return, with r calls returned and f record_feedback calls made,
\* total_requests = r + f, coldstart_requests <= r, model_requests >= f and
\* the latency window has been given r samples; a call that has recorded and
\* not yet returned counts one ahead.
C36_TotalCountsRequestsAndFeedback ==
    LET r == returns + (IF req.pc = "return" THEN 1 ELSE 0)
        f == feedbacks
    IN  /\ total_requests = r + f
        /\ coldstart_requests <= r
        /\ model_requests >= f
        /\ coldstart_requests + model_requests = r + f
        /\ Len(latencies_recorded) = r
        /\ Len(hits_recorded) = r + f

\* One returned cold-start request and one feedback call.
C36_Witness ==
    /\ req.pc = "idle"
    /\ returns = 1
    /\ feedbacks = 1
    /\ total_requests = 2
    /\ coldstart_requests = 1
    /\ model_requests = 1
    /\ Len(latencies) = 1

\* ------------------------- requests beside concurrent clicks on one session

\* The service over the sample catalog of top_k items; no click yet.
InitStrategy ==
    /\ LET cat == create_sample_catalog(top_k)
       IN  /\ items = cat.items
           /\ item_to_idx = cat.item_to_idx
           /\ idx_to_item = cat.idx_to_item
           /\ item_data = [i \in Range(cat.items) |-> "Product"]
           /\ BanditInit(cat.items)
    /\ threshold = cold_start_threshold
    /\ MetricsInit
    /\ redis = <<>>
    /\ req = IdleReq
    /\ feedbacks = 0
    /\ returns = 0
    /\ last = Call("__init__", "", 0, FALSE, <<>>)
    /\ calls = NoCalls

\* Threads add clicks to the session, step by step, while a client asks for
\* recommendations; no key expires and none is deleted.
NextStrategy ==
    \/ \E t \in Threads :
          \/ \E session_id \in SessionIds, item_id \in ClickItems :
                BeginAddClick(t, session_id, item_id)
          \/ AddClickGet(t)
          \/ AddClickSetex(t)
    \/ \E sid \in SessionIds : GetRecommendations(sid)
    \/ ModelReadSequence
    \/ ModelPredict
    \/ RecordMetrics
    \/ Return
    \/ Propagate

SpecStrategy == InitStrategy /\ [][NextStrategy]_vars

\* C37: with no expiry and no delete, once a get_recommendations call for
\* the session has returned used_coldstart = false, every later call that
\* returns has used_coldstart = false, however add_click_event and
\* get_recommendations calls interleave.  Only get_recommendations calls
\* are counted here, so model_requests > 0 before a call records its own
\* result says that an earlier call returned used_coldstart = false.
C37_StrategyIsMonotone ==
    [][(model_requests > 0 /\ req.pc = "record" /\ req'.pc = "return")
          => ~req'.used_coldstart]_vars

\* C38: every identifier of the result a get_recommendations call is about
\* to record and return is an item of the catalog, and none is "unknown",
\* on the cold-start route, the model route, the supplemented route and the
\* empty-sequence fallback.
C38_ResultsAreCatalogItems ==
    req.pc \in {"record", "return"} =>
        \A n \in 1..Len(req.recommendations) :
            /\ req.recommendations[n] \in Range(items)
            /\ req.recommendations[n] \in DOMAIN item_to_idx
            /\ req.recommendations[n] # "unknown"

\* A model result that lost the index 0 and was filled from the bandit.
C38_Witness ==
    /\ req.pc = "return"
    /\ req.path = "supplemented"
    /\ Len(req.recommendations) = top_k
    /\ get_num_items >= top_k

\* ------------------------------------------------ the expiry of a session key

\* One tick of Redis's clock: every key has one tick less to live, and a key
\* with none left is gone.
Tick ==
    /\ redis' = [k \in {j \in DOMAIN redis : redis[j].ttl > 1} |->
                    [redis[k] EXCEPT !.ttl = @ - 1, !.idle = @ + 1]]
    /\ last' = Call("tick", "", 0, FALSE, <<>>)
    /\ UNCHANGED <<banditVars, metricsVars, catalogVars, req, feedbacks, returns, calls>>

\* Clicks, reads of the session and feedback while the clock runs.
NextExpiry ==
    \/ \E sid \in SessionIds, i \in ItemUniverse : AddClick(sid, i)
    \/ \E sid \in SessionIds : GetItemSequence(sid, sequence_length)
    \/ \E sid \in SessionIds : GetSessionLength(sid)
    \/ \E sid \in SessionIds, shown \in FeedbackLists, clicked \in {None, Some("b")} :
          RecordFeedback(sid, shown, clicked)
    \/ Tick

SpecExpiry == InitFeedback /\ [][NextExpiry]_vars

\* C39: add_click gives the session's key the full expiry_seconds to live;
\* a read of the session and record_feedback leave Redis as it is; a tick
\* that is not the expiry_seconds-th since the last add_click keeps the
\* session, and the expiry_seconds-th removes it: it then reads as length 0
\* and as the empty sequence and is routed to cold start.
C39_OnlyAddClickRestartsExpiry ==
    [][\A sid \in SessionIds :
          LET key == session_key(sid)
          IN  /\ last'.op = "add_click" =>
                    /\ key \in DOMAIN redis'
                    /\ redis'[key].ttl = expiry_seconds
                    /\ redis'[key].idle = 0
              /\ last'.op \in {"get_item_sequence", "get_session_length",
                                "record_feedback"} => redis' = redis
              /\ key \in DOMAIN redis => redis[key].idle < expiry_seconds
              /\ (last'.op = "tick" /\ key \in DOMAIN redis) =>
                    IF redis[key].idle + 1 >= expiry_seconds
                    THEN /\ key \notin DOMAIN redis'
                         /\ get_session_length(sid)' = 0
                         /\ get_item_sequence(sid, sequence_length)' = <<>>
                         /\ should_use_coldstart(threshold, get_session_length(sid)')
                    ELSE /\ key \in DOMAIN redis'
                         /\ redis'[key].idle = redis[key].idle + 1
                         /\ StoredItems(sid)' = StoredItems(sid)]_vars

\* A warm session one tick after its last click, feedback recorded since.
C39_Witness ==
    /\ last.op = "tick"
    /\ session_key("s1") \in DOMAIN redis
    /\ redis[session_key("s1")].idle = expiry_seconds - 1
    /\ Len(StoredItems("s1")) = cold_start_threshold
    /\ feedbacks = 1

\* C40: the catalog's n distinct item ids have the indices 1..n, an id's
\* index being its place in the order of first insertion; item_to_idx and
\* idx_to_item are inverse bijections; an add_items call changes the index
\* of no id the catalog held, gives every id of its list the metadata of
\* the call and leaves the metadata of the other ids.
C40_IndicesAreDenseAndStable ==
    [][LET n == Len(items')
       IN  /\ NoDuplicates(items')
           /\ DOMAIN item_to_idx' = Range(items')
           /\ DOMAIN idx_to_item' = 1..n
           /\ DOMAIN item_data' = Range(items')
           /\ \A j \in 1..n :
                 /\ item_to_idx'[items'[j]] = j
                 /\ idx_to_item'[j] = items'[j]
           /\ \A x \in DOMAIN item_to_idx : item_to_idx'[x] = item_to_idx[x]
           /\ SubSeq(items', 1, Len(items)) = items
           /\ last'.op = "add_items" =>
                 /\ Range(items') = Range(items) \cup Range(last'.out)
                 /\ \A x \in Range(last'.out) : item_data'[x] = last'.item
                 /\ \A x \in Range(items) \ Range(last'.out) :
                       item_data'[x] = item_data[x]]_vars

\* "a" added again, with new metadata, after "b" was added: it keeps index 1.
C40_Witness ==
    /\ last.op = "add_items"
    /\ last.out = <<"a">>
    /\ last.item = "Renamed"
    /\ items = <<"a", "b">>
    /\ item_to_idx = [a |-> 1, b |-> 2]
    /\ item_data = [a |-> "Renamed", b |-> "Product"]
====
